---- MODULE Spec2Model ----
(***************************************************************************)
(* The stylint language server (server.ts): the buffered message queue,    *)
(* the per-document settings cache, and the validation pipeline, as a      *)
(* state machine.  One action per event callback / timer / completion.     *)
(*                                                                         *)
(* A macrotask of the server (an event callback, the setImmediate callback *)
(* of the queue, the arrival of the settings, the exit of the linter       *)
(* process) is one action.  The promise reactions it schedules run as      *)
(* microtasks before the next macrotask: they are the field "jobs" of the  *)
(* state record, run to completion by RunJobs inside the same action.      *)
(***************************************************************************)
EXTENDS Integers, Sequences, FiniteSets, TLC

(* ---------------------------------------------------------------- bounds *)
MaxVersion == 2
\* how many TextDocument objects the editor creates per URI (open, re-open)
MaxGen == 2
\* how many requests the editor sends
MaxRequests == 1
\* how many messages the editor sends (notifications, requests, cancellations)
MaxEvents == 3
\* how many fixes a Fixes object under study holds
MaxFixes == 3
\* the highest line and column of a problem of a converted report
MaxLine == 2
\* how many diagnostics a code-action request under study carries
MaxDiagnostics == 2
\* how many entries the workingDirectories setting has
MaxEntries == 3

URIs == {"a", "b"}
Gens == 1..MaxGen
\* a TextDocument object of the documents manager: open and re-open of one URI
\* give two objects; a change updates the object in place
Docs == [uri : URIs, gen : Gens]
NoDoc == [uri |-> "-", gen |-> 0]
\* JavaScript undefined, where the code holds a number
Undefined == 0

(* ------------------------------------------------------------- settings *)
NoDir == "-"
OrigCwd == "cwd0"
\* a StylintModule object; exists: what fs.existsSync answered for its
\* stylintExecPath when it was constructed.  NoLibrary: undefined
NoLibrary == [stylintExecPath |-> "-", exists |-> FALSE]
StylintModule(resolvedPath, exists) == [stylintExecPath |-> resolvedPath, exists |-> exists]
\* TextDocumentSettings as the client computes them; one record per case the
\* server distinguishes
SettingsChoices ==
    { [validate |-> FALSE, run |-> "onType", autoFix |-> FALSE, autoFixOnSave |-> FALSE,
       workingDirectory |-> NoDir, changeProcessCWD |-> FALSE, workspaceFolder |-> NoDir,
       library |-> NoLibrary],
      [validate |-> TRUE, run |-> "onType", autoFix |-> TRUE, autoFixOnSave |-> FALSE,
       workingDirectory |-> NoDir, changeProcessCWD |-> FALSE, workspaceFolder |-> "ws",
       library |-> NoLibrary],
      [validate |-> TRUE, run |-> "onSave", autoFix |-> TRUE, autoFixOnSave |-> TRUE,
       workingDirectory |-> "wd", changeProcessCWD |-> TRUE, workspaceFolder |-> "ws",
       library |-> NoLibrary] }
\* an entry of document2Settings: no promise, an unresolved one, a resolved one
NilSettings ==
    [validate |-> FALSE, run |-> "-", autoFix |-> FALSE, autoFixOnSave |-> FALSE,
     workingDirectory |-> NoDir, changeProcessCWD |-> FALSE, workspaceFolder |-> NoDir,
     library |-> NoLibrary]
NoSettings == [state |-> "none", value |-> NilSettings]
PendingSettings == [state |-> "pending", value |-> NilSettings]
Resolved(settings) == [state |-> "resolved", value |-> settings]

\* the path Files.resolve finds the linter at
ResolvedPath == "node_modules/stylint"
ResolvedPaths == {ResolvedPath}
\* path2Library of a server just started
NoLibraries == [resolvedPath \in ResolvedPaths |-> NoLibrary]
\* path2Library.set(resolvedPath, library)
path2LibrarySet(map, resolvedPath, library) == [map EXCEPT ![resolvedPath] = library]
\* settings.library = library, of a library whose exec path exists
libraryFound(settings) == [settings EXCEPT !.library = StylintModule(ResolvedPath, TRUE)]
\* the reaction of resolveSettings to the path Files.resolve found: the library
\* of the path is taken from path2Library, or constructed, probed and stored
libraryResolved(map, settings, resolvedPath, exists) ==
    LET library == map[resolvedPath] IN
    IF library = NoLibrary
    THEN LET constructed == StylintModule(resolvedPath, exists) IN
         [settings |-> IF ~exists THEN [settings EXCEPT !.validate = FALSE]
                       ELSE [settings EXCEPT !.library = constructed],
          path2Library |-> path2LibrarySet(map, resolvedPath, constructed)]
    ELSE [settings |-> [settings EXCEPT !.library = library], path2Library |-> map]
\* the reaction to Files.resolve failing: validation is switched off
libraryNotFound_StillValidates(settings) == settings
libraryNotFound(settings) == [settings EXCEPT !.validate = FALSE]

(* ------------------------------------------------------------- messages *)
ValidateMethod == "stylint/validate"
ConfigMethod == "workspace/didChangeConfiguration"
FoldersMethod == "workspace/didChangeWorkspaceFolders"
WatchedMethod == "workspace/didChangeWatchedFiles"
CodeActionMethod == "textDocument/codeAction"
ExecuteMethod == "workspace/executeCommand"

applySingleFix == "stylint.applySingleFix"
applySameFixes == "stylint.applySameFixes"
applyAllFixes == "stylint.applyAllFixes"
applyAutoFix == "stylint.applyAutoFix"
CommandIds == {applySingleFix, applySameFixes, applyAllFixes, applyAutoFix}
NoCommand == "-"

StoredCommandIds == {applySingleFix, applySameFixes, applyAllFixes}

(* -------------------------------------------------------- linter wrapper *)
\* the file at argv[4] of stylintwrapper.js: absent, not readable, not JSON, JSON
RcStates == {"missing", "unreadable", "malformed", "valid"}
DefaultConfig == "built-in configuration"
FileConfig == "configuration of the file"
\* JSON.parse(fs.readFileSync(argv[4])) in its try block, and the catch block
readConfig_NoCatch(rc) ==
    IF rc = "valid" THEN [config |-> FileConfig, threw |-> FALSE]
    ELSE [config |-> "-", threw |-> TRUE]
readConfig(rc) ==
    [config |-> IF rc = "valid" THEN FileConfig ELSE DefaultConfig, threw |-> FALSE]
\* the wrapper did not run
NoRun == [config |-> "-", threw |-> FALSE, report |-> FALSE]
\* the script: the configuration is read, the reporter set, and the linter created
\* with it, whose reporter writes the report
wrapper(rc) ==
    LET read == readConfig(rc) IN
    IF read.threw THEN [config |-> "-", threw |-> TRUE, report |-> FALSE]
    ELSE [config |-> read.config, threw |-> FALSE, report |-> TRUE]

(* ------------------------------------------------- diagnostics and fixes *)
\* problem.rule when the report gives none
NoRule == "<undefined>"
\* a StylintProblem: 1-based line and column, endLine when hasEndLine, endColumn
\* when hasEndColumn, the severity, the rule, and the offsets [start, end] of its
\* fix when hasFix
StylintProblem(line, column, hasEndLine, endLine, hasEndColumn, endColumn, severity, rule, hasFix, range) ==
    [line |-> line, column |-> column, hasEndLine |-> hasEndLine, endLine |-> endLine,
     hasEndColumn |-> hasEndColumn, endColumn |-> endColumn, severity |-> severity,
     rule |-> rule, hasFix |-> hasFix, range |-> range]

\* DiagnosticSeverity
SeverityError == "DiagnosticSeverity.Error"
SeverityWarning == "DiagnosticSeverity.Warning"
convertSeverity_IgnoreCase(severity) ==
    IF severity \in {"Warning", "warning"} THEN SeverityWarning ELSE SeverityError
convertSeverity(severity) ==
    CASE severity = "Warning" -> SeverityWarning
      [] severity = "Error" -> SeverityError
      [] OTHER -> SeverityError

\* Math.max(0, n)
Max0(n) == IF n > 0 THEN n ELSE 0

makeDiagnostic(problem) ==
    LET startLine == Max0(problem.line - 1)
        startChar == Max0(problem.column - 1)
        endLine == IF problem.hasEndLine THEN Max0(problem.endLine - 1) ELSE startLine
        endChar == IF problem.hasEndColumn THEN Max0(problem.endColumn - 1)
                   ELSE startChar IN
    [severity |-> convertSeverity(problem.severity),
     start |-> [line |-> startLine, character |-> startChar],
     end |-> [line |-> endLine, character |-> endChar],
     code |-> problem.rule]

\* the template string of computeKey: the four numbers and the code, an undefined
\* code rendered as the word undefined
computeKey(diagnostic) ==
    <<diagnostic.start.line, diagnostic.start.character,
      diagnostic.end.line, diagnostic.end.character,
      IF diagnostic.code = NoRule THEN "undefined" ELSE diagnostic.code>>

\* an entry of a document's Map<string, AutoFix>: the key and the AutoFix (its label
\* is a function of ruleId; edit.range is range)
AutoFix(key, version, ruleId, range) ==
    [key |-> key, documentVersion |-> version, ruleId |-> ruleId, range |-> range]
\* undefined, where the code holds an AutoFix
NoFix == AutoFix(<<>>, 0, NoRule, <<0, 0>>)

\* Map.prototype.set: a key the map holds keeps its place
mapSet(edits, entry) ==
    IF \E i \in 1..Len(edits) : edits[i].key = entry.key
    THEN [i \in 1..Len(edits) |-> IF edits[i].key = entry.key THEN entry ELSE edits[i]]
    ELSE Append(edits, entry)
mapHas(edits, key) == \E i \in 1..Len(edits) : edits[i].key = key
mapGet(edits, key) == edits[CHOOSE i \in 1..Len(edits) : edits[i].key = key]

recordCodeAction(edits, version, diagnostic, problem) ==
    IF ~problem.hasFix \/ problem.rule = NoRule
    THEN edits
    ELSE mapSet(edits, AutoFix(computeKey(diagnostic), version, problem.rule, problem.range))

\* Fixes.overlaps
overlaps_OrTouches(lastEdit, newEdit) ==
    lastEdit # NoFix /\ lastEdit.range[2] >= newEdit.range[1]
overlaps(lastEdit, newEdit) == lastEdit # NoFix /\ lastEdit.range[2] > newEdit.range[1]

isEmpty(edits) == Len(edits) = 0
getDocumentVersion(edits) == edits[1].documentVersion

getScoped_All(edits, diagnostics) == edits
RECURSIVE getScoped(_, _)
getScoped(edits, diagnostics) ==
    IF diagnostics = <<>> THEN <<>>
    ELSE LET key == computeKey(Head(diagnostics))
             rest == getScoped(edits, Tail(diagnostics)) IN
         IF mapHas(edits, key) THEN <<mapGet(edits, key)>> \o rest ELSE rest

compare_ByStart(a, b) == a.range[1] - b.range[1]
\* the comparator of getAllSorted
compare(a, b) ==
    LET d == a.range[1] - b.range[1] IN
    IF d # 0 THEN d
    ELSE IF a.range[2] = 0 THEN -1
    ELSE IF b.range[2] = 0 THEN 1
    ELSE a.range[2] - b.range[2]

\* Array.prototype.sort is an insertion sort on arrays this short.  Two edits with
\* the same start and end 0 are "less" than each other for the comparator, and the
\* order the engine leaves them in is its own: one engine asks compare(placed, new)
\* and keeps them in insertion order, the other asks compare(new, placed) and
\* reverses them.
SortEngines == {"compare(placed, new)", "compare(new, placed)"}
RECURSIVE sortScan(_, _, _, _)
\* how many elements of the sorted prefix stay in front of x
sortScan(engine, sorted, x, j) ==
    IF j = 0 THEN 0
    ELSE IF (IF engine = "compare(placed, new)"
             THEN compare(sorted[j], x) > 0
             ELSE compare(x, sorted[j]) < 0)
         THEN sortScan(engine, sorted, x, j - 1)
         ELSE j
RECURSIVE arraySort(_, _)
arraySort(engine, array) ==
    IF array = <<>> THEN <<>>
    ELSE LET n == Len(array)
             sorted == arraySort(engine, SubSeq(array, 1, n - 1))
             j == sortScan(engine, sorted, array[n], n - 1) IN
         SubSeq(sorted, 1, j) \o <<array[n]>> \o SubSeq(sorted, j + 1, n - 1)

getAllSorted(engine, edits) == arraySort(engine, edits)

RECURSIVE overlapFreeFrom(_, _, _, _)
\* the loop of getOverlapFree from index i
overlapFreeFrom(sorted, i, result, last) ==
    IF i > Len(sorted) THEN result
    ELSE IF ~overlaps(last, sorted[i])
         THEN overlapFreeFrom(sorted, i + 1, Append(result, sorted[i]), sorted[i])
         ELSE overlapFreeFrom(sorted, i + 1, result, last)

getOverlapFree(engine, edits) ==
    LET sorted == getAllSorted(engine, edits) IN
    IF Len(sorted) <= 1 THEN sorted
    ELSE overlapFreeFrom(sorted, 2, <<sorted[1]>>, sorted[1])

\* a WorkspaceChange: the URI and version of its text document and its edits, one
\* createTextEdit(editInfo) per AutoFix
WorkspaceChange(uri, version, edits) == [uri |-> uri, version |-> version, edits |-> edits]
NoChange == WorkspaceChange("-", 0, <<>>)

getLastEdit_First(array) == IF Len(array) = 0 THEN NoFix ELSE array[1]
getLastEdit(array) == IF Len(array) = 0 THEN NoFix ELSE array[Len(array)]

RECURSIVE bulkFixes(_, _, _, _, _)
\* the loop of the code-action handler over getAllSorted(): the lists same and all
bulkFixes(sorted, ruleId, i, same, all) ==
    IF i > Len(sorted) THEN [same |-> same, all |-> all]
    ELSE LET editInfo == sorted[i] IN
         bulkFixes(sorted, ruleId, i + 1,
                   IF editInfo.ruleId = ruleId /\ ~overlaps(getLastEdit(same), editInfo)
                   THEN Append(same, editInfo) ELSE same,
                   IF ~overlaps(getLastEdit(all), editInfo)
                   THEN Append(all, editInfo) ELSE all)

NoActions ==
    [threw |-> FALSE, result |-> <<>>,
     changes |-> [c \in StoredCommandIds |-> NoChange]]

\* the code-action handler from "let fixes = new Fixes(edits)" on: the commands it
\* stores and the command of each action of its result; hasDocument: documents.get(uri)
\* found the text document
computeCodeActions(engine, uri, edits, diagnostics, hasDocument) ==
    LET scoped == getScoped(edits, diagnostics)
        lastScoped == getLastEdit(scoped)
        documentVersion == lastScoped.documentVersion
        ruleId == lastScoped.ruleId
        bulk == bulkFixes(getAllSorted(engine, edits), ruleId, 1, <<>>, <<>>)
        singles == [i \in 1..Len(scoped) |-> applySingleFix] IN
    IF isEmpty(edits) \/ scoped = <<>> THEN NoActions
    ELSE IF ~hasDocument THEN [NoActions EXCEPT !.threw = TRUE]
    ELSE [threw |-> FALSE,
          result |-> singles
                     \o (IF Len(bulk.same) > 1 THEN <<applySameFixes>> ELSE <<>>)
                     \o (IF Len(bulk.all) > 1 THEN <<applyAllFixes>> ELSE <<>>),
          changes |->
              [c \in StoredCommandIds |->
                  CASE c = applySingleFix ->
                         WorkspaceChange(uri, documentVersion, <<lastScoped>>)
                    [] c = applySameFixes ->
                         IF Len(bulk.same) > 1
                         THEN WorkspaceChange(uri, documentVersion, bulk.same) ELSE NoChange
                    [] c = applyAllFixes ->
                         IF Len(bulk.all) > 1
                         THEN WorkspaceChange(uri, documentVersion, bulk.all) ELSE NoChange]]

VARIABLES
    documents,          \* TextDocuments: the open URIs, in insertion order
    gen,                \* per URI, how many TextDocument objects were created
    docVersion,         \* per TextDocument object, its version field
    document2Settings,  \* per URI: NoSettings, PendingSettings or Resolved(settings)
    pendingSettings,    \* the unresolved settings promises, with their reactions
    queue,              \* BufferedMessageQueue.queue
    timer,              \* BufferedMessageQueue.timer is set
    armed,              \* the setImmediate callbacks of trigger() not yet run
    requests,           \* per request id: the state of its promise
    settled,            \* per request id: calls of resolve / reject so far
    invoked,            \* per request id: calls of its handler so far
    cancelRequested,    \* per request id: token.isCancellationRequested
    validations,        \* the linter invocations in flight
    cwd,                \* process.cwd()
    codeActions,        \* per URI: the recorded fixes
    commands,           \* the commands map of the last code-action request
    published,          \* per URI: the last sendDiagnostics
    noConfigReported,   \* the URIs a stylint/noConfig request was sent for
    configErrorReported,   \* the configuration files an error was reported for
    missingModuleReported, \* the plugins reported as missing
    path2Library,       \* per resolved path: the StylintModule constructed for it
    libraryFailed,      \* per URI: the cache got failed settings since its last clear
    fixEdits,           \* the edits of a Fixes object: one document's entries of the fix store
    sortEngine,         \* how Array.prototype.sort places edits its comparator cannot order
    fixOut,             \* what the code-action handler and the Fixes methods last returned
    queries,            \* per URI: getConfiguration calls since the last invalidation
    events,             \* messages the editor has sent so far
    lastAct,            \* what the last step did
    rcFile,             \* the configuration file the wrapper is given
    wrapperOut,         \* what the wrapper did
    reportProblem,      \* a message of a report
    reportDiagnostic,   \* the diagnostic made of it
    workingDirectories, \* the workingDirectories setting of the user
    workspaceFolderPath,   \* the path of the workspace folder, if it is a file folder
    filePath,           \* the path of the document, if it is a file
    configured,         \* the middleware has answered the configuration request
    workingDirectory    \* settings.workingDirectory of its answer

serverVars ==
    <<documents, gen, docVersion, document2Settings, pendingSettings, queue, timer,
      armed, requests, settled, invoked, cancelRequested, validations, cwd, codeActions,
      commands,
      published, noConfigReported, configErrorReported, missingModuleReported,
      path2Library, libraryFailed, queries, events, lastAct>>
fixesVars == <<fixEdits, sortEngine, fixOut>>
reportVars == <<rcFile, wrapperOut, reportProblem, reportDiagnostic>>
clientVars ==
    <<workingDirectories, workspaceFolderPath, filePath, configured, workingDirectory>>
vars == <<serverVars, fixesVars, reportVars, clientVars>>


(* ------------------------------------ the working directory of a document *)
\* A file system path is the sequence of its characters; undefined is the empty one.
NoFsPath == <<>>
FolderW == <<"/", "w">>
FolderWA == <<"/", "w", "/", "a">>
FolderX == <<"/", "x">>
RelativeA == <<"a">>
DocumentPath == <<"/", "w", "/", "a", "/", "f">>
\* String.prototype.startsWith
startsWith(string, prefix) ==
    /\ Len(prefix) <= Len(string)
    /\ \A i \in 1..Len(prefix) : string[i] = prefix[i]
isAbsolute(directory) == directory # <<>> /\ directory[1] = "/"
\* path.join of a folder and a relative directory without dots
join(folder, directory) == folder \o <<"/">> \o directory

\* an entry of the setting: a string, a DirectoryItem, or anything else
StringEntry(directory) ==
    [type |-> "string", directory |-> directory, changeProcessCWD |-> FALSE]
DirectoryItem(directory, changeProcessCWD) ==
    [type |-> "DirectoryItem", directory |-> directory,
     changeProcessCWD |-> changeProcessCWD]
OtherEntry == [type |-> "other", directory |-> NoFsPath, changeProcessCWD |-> FALSE]
\* let workingDirectory = undefined
NoWorkingDirectory == [directory |-> NoFsPath, changeProcessCWD |-> FALSE]

\* the directory of an entry: undefined for an entry that is neither a string nor a
\* DirectoryItem, for an empty one, and for a relative one outside a file folder
directoryOf(entry, folderPath) ==
    LET directory == IF entry.type = "other" THEN NoFsPath ELSE entry.directory IN
    IF directory = NoFsPath THEN NoFsPath
    ELSE IF isAbsolute(directory) THEN directory
    ELSE IF folderPath # NoFsPath THEN join(folderPath, directory)
    ELSE NoFsPath
changeProcessCWDOf(entry) == entry.type = "DirectoryItem" /\ entry.changeProcessCWD

\* workingDirectory.directory.length < directory.length
shorter_OrEqual(current, directory) == Len(current.directory) <= Len(directory)
shorter(current, directory) == Len(current.directory) < Len(directory)

RECURSIVE selectWorkingDirectory(_, _, _, _, _)
\* the loop over the entries, from entry k on
selectWorkingDirectory(entries, folderPath, file, current, k) ==
    IF k > Len(entries) THEN current
    ELSE LET directory == directoryOf(entries[k], folderPath)
             found == [directory |-> directory,
                       changeProcessCWD |-> changeProcessCWDOf(entries[k])]
             next == IF file # NoFsPath /\ directory # NoFsPath
                        /\ startsWith(file, directory)
                     THEN IF current # NoWorkingDirectory
                          THEN IF shorter(current, directory) THEN found ELSE current
                          ELSE found
                     ELSE current IN
         selectWorkingDirectory(entries, folderPath, file, next, k + 1)

(* ------------------------------------------------------- state as a value *)
\* The server state as one record, so that the functions of server.ts are
\* operators from state to state.  jobs: the microtasks not yet run.
St ==
    [documents |-> documents, gen |-> gen, docVersion |-> docVersion,
     document2Settings |-> document2Settings, pendingSettings |-> pendingSettings,
     queue |-> queue, timer |-> timer, armed |-> armed, requests |-> requests,
     settled |-> settled,
     invoked |-> invoked,
     cancelRequested |-> cancelRequested, validations |-> validations, cwd |-> cwd,
     codeActions |-> codeActions, commands |-> commands, published |-> published,
     noConfigReported |-> noConfigReported, configErrorReported |-> configErrorReported,
     missingModuleReported |-> missingModuleReported, path2Library |-> path2Library,
     libraryFailed |-> libraryFailed,
     engine |-> sortEngine,
     queries |-> queries, events |-> events, act |-> lastAct, jobs |-> <<>>,
     sent |-> {}, closed |-> {}, applied |-> NoChange, handlers |-> <<>>,
     sendDiagnostics |-> [sent |-> FALSE, uri |-> "-", diagnostics |-> <<>>],
     willSave |-> <<>>]

Install(s) ==
    /\ documents' = s.documents
    /\ gen' = s.gen
    /\ docVersion' = s.docVersion
    /\ document2Settings' = s.document2Settings
    /\ pendingSettings' = s.pendingSettings
    /\ queue' = s.queue
    /\ timer' = s.timer
    /\ armed' = s.armed
    /\ requests' = s.requests
    /\ settled' = s.settled
    /\ invoked' = s.invoked
    /\ cancelRequested' = s.cancelRequested
    /\ validations' = s.validations
    /\ cwd' = s.cwd
    /\ codeActions' = s.codeActions
    /\ commands' = s.commands
    /\ published' = s.published
    /\ noConfigReported' = s.noConfigReported
    /\ configErrorReported' = s.configErrorReported
    /\ missingModuleReported' = s.missingModuleReported
    /\ path2Library' = s.path2Library
    /\ libraryFailed' = s.libraryFailed
    /\ queries' = s.queries
    /\ events' = s.events
    /\ lastAct' = [s.act EXCEPT !.sent = s.sent, !.closed = s.closed, !.applied = s.applied,
                               !.handlers = s.handlers,
                               !.sendDiagnostics = s.sendDiagnostics,
                               !.willSave = s.willSave]
    /\ UNCHANGED <<fixesVars, reportVars, clientVars>>

NoMsg ==
    [kind |-> "-", method |-> "-", doc |-> NoDoc, uri |-> "-", documentVersion |-> 0,
     id |-> 0, command |-> "-", argVersion |-> 0, diagnostics |-> <<>>, changes |-> <<>>]
\* what a step did: the callback that ran, how it ended, the message it handled;
\* for a linter run that ended, its document, the report and the problems taken
\* from it, and the diagnostics sent; the messages sent to
\* the client, the URIs whose close handler ran, the edit given to applyEdit, the
\* error handlers called, the answers given to will-save requests
Act(op, outcome, msg) ==
    [op |-> op, outcome |-> outcome, msg |-> msg, doc |-> NoDoc, report |-> <<>>,
     raw |-> [isArray |-> FALSE, docReports |-> <<>>],
     sent |-> {}, closed |-> {}, applied |-> NoChange, handlers |-> <<>>,
     sendDiagnostics |-> [sent |-> FALSE, uri |-> "-", diagnostics |-> <<>>],
     willSave |-> <<>>]
\* a request or notification of the server to the client
ToClient(method, uri, state) == [method |-> method, uri |-> uri, state |-> state]
send(s, message) == [s EXCEPT !.sent = @ \cup {message}]

RemoveAt(seq, i) == [j \in 1..(Len(seq) - 1) |-> IF j < i THEN seq[j] ELSE seq[j + 1]]
Without(seq, x) == SelectSeq(seq, LAMBDA y : y # x)
InSeq(seq, x) == \E i \in 1..Len(seq) : seq[i] = x

(* ---------------------------------------------------- documents manager *)
\* documents.get(uri): the open TextDocument object of the URI, or NoDoc
documentsGet(s, uri) ==
    IF InSeq(s.documents, uri) THEN [uri |-> uri, gen |-> s.gen[uri]] ELSE NoDoc

\* document.version of the open document of the URI, Undefined when there is none
LiveVersion(s, uri) ==
    IF InSeq(s.documents, uri) THEN s.docVersion[documentsGet(s, uri)] ELSE Undefined

(* ------------------------------------------------------ settings cache *)
\* a reaction attached with .then to a settings promise
Cont(k, doc, publish, stale) == [k |-> k, doc |-> doc, publish |-> publish, stale |-> stale]
\* the reaction as a microtask, with the value the promise resolved to
Job(cont, settings) ==
    [k |-> cont.k, doc |-> cont.doc, publish |-> cont.publish, stale |-> cont.stale,
     settings |-> settings]

\* the index in pendingSettings of the promise document2Settings holds for uri:
\* the youngest unresolved promise of that URI
CachedIndex(s, uri) ==
    CHOOSE i \in 1..Len(s.pendingSettings) :
        /\ s.pendingSettings[i].uri = uri
        /\ \A j \in (i + 1)..Len(s.pendingSettings) : s.pendingSettings[j].uri # uri

\* document2Settings.set(uri, resultPromise) for a promise just created
cacheOnMiss_NotCached(d2s, uri) == d2s
cacheOnMiss(d2s, uri) == [d2s EXCEPT ![uri] = PendingSettings]

resolveSettings(s, doc, cont) ==
    LET cached == s.document2Settings[doc.uri] IN
    IF cached = NoSettings
    THEN [s EXCEPT !.pendingSettings = Append(@, [uri |-> doc.uri, conts |-> <<cont>>]),
                   !.document2Settings = cacheOnMiss(@, doc.uri),
                   !.queries[doc.uri] = @ + 1]
    ELSE IF cached = PendingSettings
    THEN [s EXCEPT !.pendingSettings[CachedIndex(s, doc.uri)].conts = Append(@, cont)]
    ELSE [s EXCEPT !.jobs = Append(@, Job(cont, cached.value))]

(* -------------------------------------------------------- message queue *)
Message(kind, method, doc, uri, version, id, command, argVersion, diagnostics) ==
    [kind |-> kind, method |-> method, doc |-> doc, uri |-> uri,
     documentVersion |-> version, id |-> id, command |-> command,
     argVersion |-> argVersion, diagnostics |-> diagnostics, changes |-> <<>>]

\* setImmediate(callback)
setImmediate(s) == [s EXCEPT !.timer = TRUE, !.armed = @ + 1]
trigger_Always(s) == IF Len(s.queue) = 0 THEN s ELSE setImmediate(s)
trigger(s) == IF s.timer \/ Len(s.queue) = 0 THEN s ELSE setImmediate(s)

\* this.queue.push(message)
push_Front(q, m) == <<m>> \o q
push(q, m) == Append(q, m)

addNotificationMessage(s, doc, version) ==
    trigger([s EXCEPT !.queue = push(@,
        Message("notification", ValidateMethod, doc, doc.uri, version, 0, NoCommand,
                Undefined, <<>>))])

\* the handlers registered with a versionProvider
HasVersionProvider(m) == m.method \in {ValidateMethod, CodeActionMethod, ExecuteMethod}

versionProvider(s, m) ==
    CASE m.method = ValidateMethod -> s.docVersion[m.doc]
      [] m.method = CodeActionMethod -> LiveVersion(s, m.uri)
      [] m.method = ExecuteMethod ->
            IF m.command = applyAutoFix THEN m.argVersion ELSE Undefined
      [] OTHER -> Undefined


(* ------------------------------------------------------------ validation *)
NoPub == [kind |-> "none", from |-> 0, live |-> 0]
EmptyPub == [kind |-> "empty", from |-> 0, live |-> 0]
\* sendDiagnostics of a linter run: the version the run started on and the
\* version of the open document when it is sent
ReportPub(from, live) == [kind |-> "report", from |-> from, live |-> live]

\* the directory validate() changes to before the linter runs, NoDir for none
chdirTarget(settings) ==
    IF settings.workingDirectory # NoDir
    THEN (IF settings.changeProcessCWD THEN settings.workingDirectory ELSE NoDir)
    ELSE settings.workspaceFolder

\* validate() up to its await: the linter process of settings.library is
\* started; store keeps the entries codeActions.delete(uri) removes
validateStart(s, doc, settings, publish, stale) ==
    LET target == chdirTarget(settings) IN
    [s EXCEPT !.cwd = IF target # NoDir THEN target ELSE @,
              !.codeActions[doc.uri] = <<>>,
              !.validations = Append(@,
                  [doc |-> doc, cwd |-> s.cwd, publish |-> publish,
                   autoFix |-> settings.autoFix, from |-> s.docVersion[doc],
                   stale |-> stale, store |-> s.codeActions[doc.uri],
                   cli |-> settings.library])]

\* the finally block of validate()
restoreCwd(current, saved) == IF saved # current THEN saved ELSE current

RECURSIVE recordAll(_, _, _)
\* the forEach of validate() over the messages of the report, autoFix being set
recordAll(edits, version, messages) ==
    IF messages = <<>> THEN edits
    ELSE recordAll(recordCodeAction(edits, version, makeDiagnostic(Head(messages)),
                                    Head(messages)),
                   version, Tail(messages))

StatusMethod == "stylint/status"
NoConfigMethod == "stylint/noConfig"
NoLibraryMethod == "stylint/noLibrary"
ShowErrorMethod == "window/showMessage"
Status(state) == ToClient(StatusMethod, "-", state)

\* the value the linter returns: an array of reports of files, or something else;
\* the messages of a report of a file are an array, or something else
DocReport(messagesIsArray, messages) ==
    [messagesIsArray |-> messagesIsArray, messages |-> messages]
NoReport == [isArray |-> FALSE, docReports |-> <<>>]
\* the report of one file with these messages
Report(messages) == [isArray |-> TRUE, docReports |-> <<DocReport(TRUE, messages)>>]
\* a message that is null
NullProblem == [null |-> TRUE]
problemsOf_First(report) ==
    IF report.isArray /\ Len(report.docReports) >= 1 /\ report.docReports[1].messagesIsArray
    THEN SelectSeq(report.docReports[1].messages, LAMBDA problem : problem # NullProblem)
    ELSE <<>>
\* the problems validate() converts: the messages that are not null of a report of
\* exactly one file
problemsOf(report) ==
    IF report.isArray /\ Len(report.docReports) = 1 /\ report.docReports[1].messagesIsArray
    THEN SelectSeq(report.docReports[1].messages, LAMBDA problem : problem # NullProblem)
    ELSE <<>>
diagnosticsOf(problems) == [i \in 1..Len(problems) |-> makeDiagnostic(problems[i])]
\* connection.sendDiagnostics({ uri, diagnostics }) of validate()
NotSent == [sent |-> FALSE, uri |-> "-", diagnostics |-> <<>>]
Sent(uri, diagnostics) == [sent |-> TRUE, uri |-> uri, diagnostics |-> diagnostics]

\* validate() after its await, the linter having returned this report, and the
\* reaction of validateSingle to its promise
validateReturn(s, i, report) ==
    LET v == s.validations[i]
        uri == v.doc.uri
        problems == problemsOf(report) IN
    send([s EXCEPT !.validations = RemoveAt(@, i),
                   !.codeActions[uri] =
                       IF v.autoFix THEN recordAll(@, s.docVersion[v.doc], problems) ELSE @,
                   !.published[uri] =
                       IF v.publish THEN ReportPub(v.from, LiveVersion(s, uri)) ELSE @,
                   !.sendDiagnostics =
                       IF v.publish THEN Sent(uri, diagnosticsOf(problems)) ELSE @,
                   !.cwd = restoreCwd(@, v.cwd)],
         Status("ok"))

\* the errors of the linter the handlers tell apart: by messageTemplate and by
\* what the patterns of the handlers find in message
NoConfigFound == "no-config-found"
ConfigError == "Cannot read config file: .stylintrc"
PluginMissing == "Failed to load plugin p: Cannot find module m"
PluginReferenced == "Failed to load plugin p: Cannot find module 'm' Referenced from: .stylintrc"
NoConfigAndConfigError == "no-config-found, Cannot read config file: .stylintrc"
NoMessage == "error without message"
Unclassified == "unclassified"
\* the errors of the linter in the run of the whole server
Errors == {NoConfigFound, Unclassified}
ErrorsAll ==
    {NoConfigFound, ConfigError, PluginMissing, PluginReferenced, NoConfigAndConfigError,
     NoMessage, Unclassified}
RcPath == ".stylintrc"
NoPath == "-"
NoPlugin == "-"
isNoConfigFoundError(error) == error \in {NoConfigFound, NoConfigAndConfigError}
\* error.message is set
hasMessage(error) == error # NoMessage
\* the file name the three patterns of tryHandleConfigError find in the message
configFileOf(error) ==
    IF error \in {ConfigError, PluginReferenced, NoConfigAndConfigError} THEN RcPath
    ELSE NoPath
\* the plugin the pattern of tryHandleMissingModule finds in the message
pluginOf(error) == IF error \in {PluginMissing, PluginReferenced} THEN "p" ELSE NoPlugin

\* what an error handler returns: the state it leaves and the Status, or undefined
NoStatus == "undefined"
Handled(s, status) == [s |-> s, status |-> status]

\* noConfigReported.has(document.uri)
noConfigHas_Never(reported, uri) == FALSE
noConfigHas(reported, uri) == uri \in reported

tryHandleNoConfig(s, error, doc) ==
    IF ~isNoConfigFoundError(error) THEN Handled(s, NoStatus)
    ELSE Handled(IF noConfigHas(s.noConfigReported, doc.uri)
                 THEN s
                 ELSE send([s EXCEPT !.noConfigReported = @ \cup {doc.uri}],
                           ToClient(NoConfigMethod, doc.uri, "-")),
                 "warn")

ShowInformationMethod == "window/showMessage (information)"
\* handleFileName of tryHandleConfigError; the configuration file is not one of
\* the open documents
handleFileName(s, filename) ==
    Handled(IF filename \in s.configErrorReported
            THEN s
            ELSE send([s EXCEPT !.configErrorReported = @ \cup {filename}],
                      ToClient(ShowInformationMethod, "-", filename)),
            "warn")

tryHandleConfigError(s, error, doc) ==
    IF ~hasMessage(error) THEN Handled(s, NoStatus)
    ELSE IF configFileOf(error) # NoPath THEN handleFileName(s, configFileOf(error))
    ELSE Handled(s, NoStatus)

\* handleMissingModule of tryHandleMissingModule; it writes to the console alone
handleMissingModule(s, plugin) ==
    Handled([s EXCEPT !.missingModuleReported = @ \cup {plugin}], "warn")

tryHandleMissingModule(s, error, doc) ==
    IF ~hasMessage(error) THEN Handled(s, NoStatus)
    ELSE IF pluginOf(error) # NoPlugin THEN handleMissingModule(s, pluginOf(error))
    ELSE Handled(s, NoStatus)

showErrorMessage(s, error, doc) ==
    Handled(send(s, ToClient(ShowErrorMethod, "-", "error")), "error")

singleErrorHandlers_ConfigFirst ==
    <<"tryHandleConfigError", "tryHandleNoConfig", "tryHandleMissingModule",
      "showErrorMessage">>
singleErrorHandlers ==
    <<"tryHandleNoConfig", "tryHandleConfigError", "tryHandleMissingModule",
      "showErrorMessage">>
\* handler(reason, document, settings.library)
callHandler(handler, s, error, doc) ==
    LET s1 == [s EXCEPT !.handlers = Append(@, handler)] IN
    CASE handler = "tryHandleNoConfig" -> tryHandleNoConfig(s1, error, doc)
      [] handler = "tryHandleConfigError" -> tryHandleConfigError(s1, error, doc)
      [] handler = "tryHandleMissingModule" -> tryHandleMissingModule(s1, error, doc)
      [] handler = "showErrorMessage" -> showErrorMessage(s1, error, doc)

RECURSIVE runHandlers(_, _, _, _)
\* the loop of the catch reaction of validateSingle, from handler k on
runHandlers(s, error, doc, k) ==
    IF k > Len(singleErrorHandlers) THEN Handled(s, NoStatus)
    ELSE LET r == callHandler(singleErrorHandlers[k], s, error, doc) IN
         IF r.status # NoStatus THEN r ELSE runHandlers(r.s, error, doc, k + 1)

validateThrow_AsReturn(s, i, error) == validateReturn(s, i, Report(<<>>))
\* validate() after its await, the linter having thrown, and the reaction of
\* validateSingle to the rejection
validateThrow(s, i, error) ==
    LET v == s.validations[i]
        s1 == [s EXCEPT !.validations = RemoveAt(@, i),
                        !.cwd = restoreCwd(@, v.cwd)]
        r == runHandlers(s1, error, v.doc, 1) IN
    send(r.s, Status(IF r.status = NoStatus THEN "error" ELSE r.status))

validateSingle_NoOpenCheck(s, doc, publish, stale) ==
    resolveSettings(s, doc, Cont("validateSingle", doc, publish, stale))
validateSingle(s, doc, publish, stale) ==
    IF documentsGet(s, doc.uri) = NoDoc
    THEN s
    ELSE resolveSettings(s, doc, Cont("validateSingle", doc, publish, stale))

\* getFixes(textDocument): the edits of the store of the document, none when the
\* store is empty or holds another version; createTextEdit keeps their number
\* and order
getFixes(s, doc) ==
    LET edits == s.codeActions[doc.uri] IN
    IF isEmpty(edits) THEN <<>>
    ELSE IF s.docVersion[doc] # getDocumentVersion(edits) THEN <<>>
    ELSE getOverlapFree(s.engine, edits)

\* the value the promise returned by the will-save callback resolves to
answerWillSave(s, doc, edits) ==
    [s EXCEPT !.willSave = Append(@, [doc |-> doc, edits |-> edits])]

\* .then(() => getFixes(document)) on a promise that is resolved: one more
\* microtask behind those already waiting
thenGetFixes(s, doc, settings) ==
    [s EXCEPT !.jobs = Append(@, Job(Cont("getFixes", doc, FALSE, FALSE), settings))]

\* the reactions of the event callbacks to the resolved settings; validateSingle
\* is called with publishDiagnostics false by the will-save callback alone,
\* which computes getFixes once the promise of validateSingle is resolved
RunJob(s, job) ==
    LET settings == job.settings
        doc == job.doc IN
    CASE job.k = "open" ->
            IF settings.validate /\ settings.run = "onSave"
            THEN addNotificationMessage(s, doc, s.docVersion[doc]) ELSE s
      [] job.k = "change" ->
            IF settings.validate /\ settings.run = "onType"
            THEN addNotificationMessage(s, doc, s.docVersion[doc]) ELSE s
      [] job.k = "save" ->
            IF settings.validate /\ settings.run = "onSave"
            THEN addNotificationMessage(s, doc, s.docVersion[doc]) ELSE s
      [] job.k = "close" ->
            [s EXCEPT !.document2Settings[doc.uri] = NoSettings,
                      !.queries[doc.uri] = 0,
                      !.codeActions[doc.uri] = <<>>,
                      !.published[doc.uri] = IF settings.validate THEN EmptyPub ELSE @,
                      !.closed = @ \cup {doc.uri}]
      [] job.k = "willSave" ->
            IF ~settings.autoFixOnSave THEN answerWillSave(s, doc, <<>>)
            ELSE IF settings.run = "onSave"
            THEN LET s1 == validateSingle(s, doc, FALSE, FALSE) IN
                 IF documentsGet(s, doc.uri) = NoDoc
                 THEN thenGetFixes(s1, doc, settings) ELSE s1
            ELSE answerWillSave(s, doc, getFixes(s, doc))
      [] job.k = "validateSingle" ->
            LET s1 == IF settings.validate
                      THEN validateStart(s, doc, settings, job.publish, job.stale)
                      ELSE s IN
            IF job.publish THEN s1 ELSE thenGetFixes(s1, doc, settings)
      [] job.k = "getFixes" -> answerWillSave(s, doc, getFixes(s, doc))

RECURSIVE RunJobs(_)
RunJobs(s) ==
    IF s.jobs = <<>> THEN s
    ELSE RunJobs(RunJob([s EXCEPT !.jobs = Tail(@)], Head(s.jobs)))


(* -------------------------------------------------------------- handlers *)
RECURSIVE validateMany(_, _)
\* one validate notification per document, in the order of documents.all()
validateMany(s, uris) ==
    IF uris = <<>> THEN s
    ELSE LET doc == documentsGet(s, Head(uris)) IN
         validateMany(addNotificationMessage(s, doc, s.docVersion[doc]), Tail(uris))

\* document2Settings.clear()
clearSettings_KeepResolved(d2s) ==
    [u \in URIs |-> IF d2s[u].state = "resolved" THEN d2s[u] ELSE NoSettings]
clearSettings(d2s) == [u \in URIs |-> NoSettings]

environmentChanged(s) ==
    validateMany([s EXCEPT !.document2Settings = clearSettings(@),
                           !.libraryFailed = [u \in URIs |-> FALSE],
                           !.queries = [u \in URIs |-> 0]],
                 s.documents)

watchedFilesChanged_ClearAll(s, m) ==
    validateMany([s EXCEPT !.noConfigReported = {},
                           !.missingModuleReported = {},
                           !.configErrorReported = {}],
                 s.documents)
\* the DidChangeWatchedFiles handler; cli.validate is an async function: it
\* returns a promise and throws nothing, so the entry of each changed file that
\* has one is deleted
watchedFilesChanged(s, m) ==
    validateMany([s EXCEPT !.noConfigReported = {},
                           !.missingModuleReported = {},
                           !.configErrorReported =
                               @ \ {m.changes[i] : i \in 1..Len(m.changes)}],
                 s.documents)

\* let commands: no Map before the first code-action request
NoCommands == [defined |-> FALSE, changes |-> [c \in StoredCommandIds |-> NoChange]]
\* the result of a request handler: a value, a thenable, or an exception thrown
Result(s, result) == [s |-> s, result |-> result]

\* the CodeActionRequest handler
codeActionHandler(s, m) ==
    LET actions == computeCodeActions(s.engine, m.uri, s.codeActions[m.uri],
                                      m.diagnostics, documentsGet(s, m.uri) # NoDoc) IN
    Result([s EXCEPT !.commands = [defined |-> TRUE, changes |-> actions.changes]],
           IF actions.threw THEN "throw" ELSE "value")

\* identifier.version !== textDocument.version
versionDiffers_Never(version, live) == FALSE
versionDiffers(version, live) == version # live

\* computeAllFixes(identifier): the edits, <<>> for undefined
computeAllFixes(s, uri, version) ==
    IF documentsGet(s, uri) = NoDoc \/ versionDiffers(version, LiveVersion(s, uri))
    THEN <<>>
    ELSE getOverlapFree(s.engine, s.codeActions[uri])

\* connection.workspace.applyEdit(workspaceChange.edit), when there is a change
applyEdit(s, workspaceChange) ==
    IF workspaceChange = NoChange
    THEN Result(s, "value")
    ELSE Result([s EXCEPT !.applied = workspaceChange], "thenable")

\* the ExecuteCommandRequest handler
executeCommandHandler(s, m) ==
    IF m.command = applyAutoFix
    THEN LET edits == computeAllFixes(s, m.uri, m.argVersion) IN
         applyEdit(s, IF edits = <<>> THEN NoChange
                      ELSE WorkspaceChange(m.uri, m.argVersion, edits))
    ELSE IF ~s.commands.defined THEN Result(s, "throw")
    ELSE applyEdit(s, s.commands.changes[m.command])

requestHandler(s, m) ==
    IF m.method = CodeActionMethod THEN codeActionHandler(s, m)
    ELSE executeCommandHandler(s, m)

\* the version the URI of a validate notification is at, above the recorded one
StaleByUri(s, m) == LiveVersion(s, m.uri) > m.documentVersion

notificationHandler(s, m) ==
    CASE m.method = ValidateMethod -> validateSingle(s, m.doc, TRUE, StaleByUri(s, m))
      [] m.method \in {ConfigMethod, FoldersMethod} -> environmentChanged(s)
      [] m.method = WatchedMethod -> watchedFilesChanged(s, m)

\* requestMessage.token.isCancellationRequested
isCancellationRequested_Ignored(s, m) == FALSE
isCancellationRequested(s, m) == s.cancelRequested[m.id]

\* the version gate of processQueue
versionChanged(s, m) ==
    /\ HasVersionProvider(m)
    /\ m.documentVersion # Undefined
    /\ m.documentVersion # versionProvider(s, m)

settle(s, id, how) == [s EXCEPT !.requests[id] = how, !.settled[id] = @ + 1]

processQueue(s) ==
    IF s.queue = <<>> THEN [s EXCEPT !.act = Act("processQueue", "empty", NoMsg)] ELSE
    LET m == Head(s.queue)
        s0 == [s EXCEPT !.queue = Tail(@)] IN
    IF m.kind = "request"
    THEN IF isCancellationRequested(s0, m)
         THEN [settle(s0, m.id, "cancelled") EXCEPT !.act = Act("processQueue", "cancelled", m)]
         ELSE IF versionChanged(s0, m)
         THEN [settle(s0, m.id, "cancelled") EXCEPT !.act = Act("processQueue", "stale", m)]
         ELSE LET r == requestHandler([s0 EXCEPT !.invoked[m.id] = @ + 1], m) IN
              CASE r.result = "throw" ->
                     [r.s EXCEPT !.requests[m.id] = "threw",
                                 !.act = Act("processQueue", "threw", m)]
                [] r.result = "thenable" ->
                     trigger([r.s EXCEPT !.requests[m.id] = "invoked",
                                         !.act = Act("processQueue", "deferred", m)])
                [] r.result = "value" ->
                     trigger([settle(r.s, m.id, "resolved")
                                EXCEPT !.act = Act("processQueue", "handled", m)])
    ELSE IF versionChanged(s0, m)
         THEN [s0 EXCEPT !.act = Act("processQueue", "stale", m)]
         ELSE trigger([notificationHandler(s0, m)
                         EXCEPT !.act = Act("processQueue", "handled", m)])


(* --------------------------------------------------------------- actions *)
RequestIds == 1..MaxRequests

\* the messages of a report of the linter: none, or one problem with a fix
Messages == {<<>>, <<StylintProblem(1, 1, FALSE, 0, FALSE, 0, "Warning", "R", TRUE, <<0, 2>>)>>}
\* context.diagnostics of a code-action request: diagnostics the server published
DiagnosticLists == {[i \in 1..Len(m) |-> makeDiagnostic(m[i])] : m \in Messages}
\* the configuration of the client and whether Files.resolve finds the library:
\* each configuration with the library found, and the one that reaches most of the
\* code with the library missing
Resolutions ==
    {[configuration |-> c, found |-> TRUE] : c \in SettingsChoices}
    \cup {[configuration |-> c, found |-> FALSE] :
             c \in {x \in SettingsChoices : x.validate /\ x.autoFixOnSave}}
\* no Fixes object under study
NoOut ==
    [diagnostics |-> <<>>, scoped |-> <<>>, sorted |-> <<>>, overlapFree |-> <<>>,
     actions |-> NoActions]

\* the editor sends one more message
Event(s) == [s EXCEPT !.events = @ + 1, !.act = Act("event", "-", NoMsg)]

\* the module state of server.ts after load
ServerStart ==
    /\ documents = <<>>
    /\ gen = [u \in URIs |-> 0]
    /\ docVersion = [d \in Docs |-> 0]
    /\ document2Settings = [u \in URIs |-> NoSettings]
    /\ pendingSettings = <<>>
    /\ queue = <<>>
    /\ timer = FALSE
    /\ armed = 0
    /\ requests = [r \in RequestIds |-> "none"]
    /\ settled = [r \in RequestIds |-> 0]
    /\ invoked = [r \in RequestIds |-> 0]
    /\ cancelRequested = [r \in RequestIds |-> FALSE]
    /\ validations = <<>>
    /\ cwd = OrigCwd
    /\ codeActions = [u \in URIs |-> <<>>]
    /\ commands = NoCommands
    /\ published = [u \in URIs |-> NoPub]
    /\ noConfigReported = {}
    /\ configErrorReported = {}
    /\ missingModuleReported = {}
    /\ path2Library = NoLibraries
    /\ libraryFailed = [u \in URIs |-> FALSE]
    /\ queries = [u \in URIs |-> 0]
    /\ events = 0
    /\ lastAct = Act("init", "-", NoMsg)
\* no Fixes object under study, no report under study
FixesIdle == fixEdits = <<>> /\ sortEngine = "compare(placed, new)" /\ fixOut = NoOut
NoDiagnostic ==
    [severity |-> "-", start |-> [line |-> 0, character |-> 0],
     end |-> [line |-> 0, character |-> 0], code |-> NoRule]
ReportIdle ==
    /\ rcFile = "valid"
    /\ wrapperOut = NoRun
    /\ reportProblem = StylintProblem(1, 1, FALSE, 0, FALSE, 0, "Warning", NoRule, FALSE, <<0, 0>>)
    /\ reportDiagnostic = NoDiagnostic

\* the client has no workingDirectories setting to look at
ClientIdle ==
    /\ workingDirectories = <<>>
    /\ workspaceFolderPath = NoFsPath
    /\ filePath = NoFsPath
    /\ configured = FALSE
    /\ workingDirectory = NoWorkingDirectory

Init == ServerStart /\ FixesIdle /\ ReportIdle /\ ClientIdle

\* textDocument/didOpen: the documents manager creates the TextDocument and fires
\* onDidOpen and onDidChangeContent
\* The URIs are interchangeable: the one opened first is called "a".
DidOpen(u, v) ==
    /\ ~InSeq(documents, u)
    /\ u = "a" \/ gen["a"] > 0
    /\ gen[u] < MaxGen
    /\ events < MaxEvents
    /\ LET doc == [uri |-> u, gen |-> gen[u] + 1]
           s1 == [Event(St) EXCEPT !.gen[u] = @ + 1,
                            !.docVersion[doc] = v,
                            !.documents = Append(@, u)]
           s2 == resolveSettings(s1, doc, Cont("open", doc, TRUE, FALSE))
           s3 == resolveSettings(s2, doc, Cont("change", doc, TRUE, FALSE)) IN
       Install(RunJobs(s3))

\* textDocument/didChange: the manager updates the TextDocument in place and fires
\* onDidChangeContent
DidChange(u) ==
    /\ InSeq(documents, u)
    /\ LiveVersion(St, u) < MaxVersion
    /\ events < MaxEvents
    /\ LET doc == documentsGet(St, u)
           s1 == [Event(St) EXCEPT !.docVersion[doc] = @ + 1] IN
       Install(RunJobs(resolveSettings(s1, doc, Cont("change", doc, TRUE, FALSE))))

DidSave(u) ==
    /\ InSeq(documents, u)
    /\ events < MaxEvents
    /\ LET doc == documentsGet(St, u)
           s1 == Event(St) IN
       Install(RunJobs(resolveSettings(s1, doc, Cont("save", doc, TRUE, FALSE))))

\* textDocument/willSaveWaitUntil, for a reason other than AfterDelay
WillSave(u) ==
    /\ InSeq(documents, u)
    /\ events < MaxEvents
    /\ LET doc == documentsGet(St, u)
           s1 == Event(St) IN
       Install(RunJobs(resolveSettings(s1, doc, Cont("willSave", doc, FALSE, FALSE))))

\* textDocument/didClose: the manager forgets the TextDocument and fires onDidClose
DidClose(u) ==
    /\ InSeq(documents, u)
    /\ events < MaxEvents
    /\ LET doc == documentsGet(St, u)
           s1 == [Event(St) EXCEPT !.documents = Without(@, u)] IN
       Install(RunJobs(resolveSettings(s1, doc, Cont("close", doc, TRUE, FALSE))))

\* the connection callback of registerNotification
registerNotification(method) ==
    /\ events < MaxEvents
    /\ LET m == Message("notification", method, NoDoc, "-", Undefined, 0, NoCommand,
                        Undefined, <<>>) IN
       Install(trigger([Event(St) EXCEPT !.queue = push(@, m)]))

\* workspace/didChangeWatchedFiles with the paths of the files that changed
registerWatchedFiles(changes) ==
    /\ events < MaxEvents
    /\ LET m == [Message("notification", WatchedMethod, NoDoc, "-", Undefined, 0,
                          NoCommand, Undefined, <<>>) EXCEPT !.changes = changes] IN
       Install(trigger([Event(St) EXCEPT !.queue = push(@, m)]))

\* the connection callback of registerRequest, for a message of the editor
registerRequest(m) ==
    /\ requests[m.id] = "none"
    /\ \A r \in RequestIds : r < m.id => requests[r] # "none"
    /\ events < MaxEvents
    /\ Install(trigger([Event(St) EXCEPT !.queue = push(@, m),
                                                             !.requests[m.id] = "queued"]))

CodeActionRequest(id, u, diagnostics) ==
    registerRequest(Message("request", CodeActionMethod, NoDoc, u, LiveVersion(St, u), id,
                            NoCommand, Undefined, diagnostics))

\* params.arguments[0] is the document identifier of an applyAutoFix command
ExecuteCommandRequest(id, command, u, v) ==
    /\ (command = applyAutoFix) = (u \in URIs)
    /\ (command = applyAutoFix) = (v # Undefined)
    /\ registerRequest(Message("request", ExecuteMethod, NoDoc, u, v, id, command, v, <<>>))

\* the editor cancels a request that has no response yet
CancelRequest(id) ==
    /\ requests[id] \in {"queued", "invoked"}
    /\ ~cancelRequested[id]
    /\ events < MaxEvents
    /\ Install([Event(St) EXCEPT !.cancelRequested[id] = TRUE])

\* the setImmediate callback of trigger()
TimerFires ==
    /\ armed > 0
    /\ Install(RunJobs(processQueue([St EXCEPT !.timer = FALSE, !.armed = @ - 1])))

\* the settings promise pendingSettings[i] resolves: the configuration of the
\* client has arrived and Files.resolve has found the library or has not;
\* exists: what fs.existsSync answers for the exec path of a library found
SettingsArrive(i, configuration, found, exists) ==
    /\ i \in 1..Len(pendingSettings)
    /\ LET p == pendingSettings[i]
           resolved == libraryResolved(path2Library, configuration, ResolvedPath, exists)
           settings == IF found THEN resolved.settings
                       ELSE libraryNotFound(configuration)
           isCached == /\ document2Settings[p.uri].state = "pending"
                       /\ i = CachedIndex(St, p.uri)
           s1 == [St EXCEPT !.pendingSettings = RemoveAt(@, i),
                            !.document2Settings[p.uri] =
                                IF isCached THEN Resolved(settings) ELSE @,
                            !.path2Library = IF found THEN resolved.path2Library ELSE @,
                            !.libraryFailed[p.uri] = IF isCached /\ ~found THEN TRUE ELSE @,
                            !.jobs = [j \in 1..Len(p.conts) |-> Job(p.conts[j], settings)],
                            !.act = Act("settings",
                                        IF ~found THEN "notFound"
                                        ELSE IF settings.library = NoLibrary THEN "noExec"
                                        ELSE "found",
                                        NoMsg)]
           s2 == IF found THEN s1 ELSE send(s1, ToClient(NoLibraryMethod, p.uri, "-")) IN
       Install(RunJobs([s2 EXCEPT !.act.doc = [uri |-> p.uri, gen |-> 0]]))

\* the linter process of validations[i] exits with a report
LinterReturns(i, report) ==
    /\ i \in 1..Len(validations)
    /\ Install([validateReturn(St, i, report)
                  EXCEPT !.act = [Act("validate", "returned", NoMsg)
                                    EXCEPT !.doc = validations[i].doc,
                                           !.raw = report,
                                           !.report = problemsOf(report)]])

\* the linter process of validations[i] fails
LinterThrows(i, error) ==
    /\ i \in 1..Len(validations)
    /\ Install([validateThrow(St, i, error)
                  EXCEPT !.act = [Act("validate", error, NoMsg)
                                    EXCEPT !.doc = validations[i].doc]])

\* connection.workspace.applyEdit settles: both reactions of the handler return
ApplyEditDone(id) ==
    /\ requests[id] = "invoked"
    /\ Install([settle(St, id, "resolved") EXCEPT !.act = Act("applyEdit", "-", NoMsg)])

Next ==
    \/ \E u \in URIs, v \in 1..MaxVersion : DidOpen(u, v)
    \/ \E u \in URIs : DidChange(u)
    \/ \E u \in URIs : DidSave(u)
    \/ \E u \in URIs : WillSave(u)
    \/ \E u \in URIs : DidClose(u)
    \/ \E method \in {ConfigMethod, FoldersMethod, WatchedMethod} : registerNotification(method)
    \/ \E id \in RequestIds, u \in URIs, d \in DiagnosticLists : CodeActionRequest(id, u, d)
    \/ \E id \in RequestIds, c \in CommandIds, u \in URIs \cup {"-"}, v \in 0..MaxVersion :
          ExecuteCommandRequest(id, c, u, v)
    \/ \E id \in RequestIds : CancelRequest(id)
    \/ TimerFires
    \/ \E i \in 1..Len(pendingSettings), r \in Resolutions :
          SettingsArrive(i, r.configuration, r.found, TRUE)
    \/ \E i \in 1..Len(validations), messages \in Messages : LinterReturns(i, Report(messages))
    \/ \E i \in 1..Len(validations), error \in Errors : LinterThrows(i, error)
    \/ \E id \in RequestIds : ApplyEditDone(id)

Spec == Init /\ [][Next]_vars

(* ------------------------------------------- after a code-action request *)
\* The server after this run: document a opened at version 1, its settings
\* resolved with validation on, the validate notification handled, the linter
\* returned one fixable problem, and a code-action request for its diagnostic was
\* answered.  The requests counted are those made from here on.
Offered(c) ==
       LET doc == [uri |-> "a", gen |-> 1]
           report == <<StylintProblem(1, 1, FALSE, 0, FALSE, 0, "Warning", "R", TRUE, <<0, 2>>)>>
           store == IF c.autoFix THEN recordAll(<<>>, 1, report) ELSE <<>>
           diagnostics == <<makeDiagnostic(report[1])>> IN
       /\ documents = <<"a">>
       /\ gen = [u \in URIs |-> IF u = "a" THEN 1 ELSE 0]
       /\ docVersion = [d \in Docs |-> IF d = doc THEN 1 ELSE 0]
       /\ document2Settings =
              [u \in URIs |-> IF u = "a" THEN Resolved(libraryFound(c)) ELSE NoSettings]
       /\ pendingSettings = <<>>
       /\ queue = <<>>
       /\ timer = FALSE
       /\ armed = 0
       /\ requests = [r \in RequestIds |-> "none"]
       /\ settled = [r \in RequestIds |-> 0]
       /\ invoked = [r \in RequestIds |-> 0]
       /\ cancelRequested = [r \in RequestIds |-> FALSE]
       /\ validations = <<>>
       /\ cwd = OrigCwd
       /\ sortEngine = "compare(placed, new)"
       /\ codeActions = [u \in URIs |-> IF u = "a" THEN store ELSE <<>>]
       /\ commands = [defined |-> TRUE,
                      changes |-> computeCodeActions(sortEngine, "a", store, diagnostics,
                                                     TRUE).changes]
       /\ published = [u \in URIs |-> IF u = "a" THEN ReportPub(1, 1) ELSE NoPub]
       /\ noConfigReported = {}
       /\ configErrorReported = {}
       /\ missingModuleReported = {}
       /\ path2Library = path2LibrarySet(NoLibraries, ResolvedPath, StylintModule(ResolvedPath, TRUE))
       /\ libraryFailed = [u \in URIs |-> FALSE]
       /\ fixEdits = <<>>
       /\ fixOut = NoOut
       /\ ReportIdle
       /\ ClientIdle
       /\ queries = [u \in URIs |-> IF u = "a" THEN 1 ELSE 0]
       /\ events = 0
       /\ lastAct = Act("init", "-", NoMsg)

InitOffered == \E c \in {x \in SettingsChoices : x.validate} : Offered(c)

\* the editor works on the open document: it edits and saves it and asks for
\* code actions and commands; no document is opened or closed, nothing changes in
\* the environment
NextOffered ==
    \/ \E u \in URIs : DidChange(u)
    \/ \E u \in URIs : DidSave(u)
    \/ \E u \in URIs : WillSave(u)
    \/ \E id \in RequestIds, u \in URIs, d \in DiagnosticLists : CodeActionRequest(id, u, d)
    \/ \E id \in RequestIds, c \in CommandIds, u \in URIs \cup {"-"}, v \in 0..MaxVersion :
          ExecuteCommandRequest(id, c, u, v)
    \/ \E id \in RequestIds : CancelRequest(id)
    \/ TimerFires
    \/ \E i \in 1..Len(validations), messages \in Messages : LinterReturns(i, Report(messages))
    \/ \E i \in 1..Len(validations), error \in Errors : LinterThrows(i, error)
    \/ \E id \in RequestIds : ApplyEditDone(id)

SpecOffered == InitOffered /\ [][NextOffered]_vars

(* ----------------------------------------- validations that fail or mix *)
\* The open document is edited and saved, watched files change, and its
\* validations end with any report or any error.
Reports ==
    {<<>>,
     <<StylintProblem(1, 1, FALSE, 0, FALSE, 0, "Warning", "R", TRUE, <<0, 2>>)>>,
     <<StylintProblem(1, 2, FALSE, 0, FALSE, 0, "Warning", "S", TRUE, <<1, 3>>)>>}
\* params.changes of a watched-files notification: no file, the configuration file
WatchedChanges == {<<>>, <<RcPath>>}

NextFailures ==
    \/ \E u \in URIs : DidChange(u)
    \/ \E u \in URIs : DidSave(u)
    \/ \E u \in URIs : WillSave(u)
    \/ \E changes \in WatchedChanges : registerWatchedFiles(changes)
    \/ TimerFires
    \/ \E i \in 1..Len(validations), messages \in Reports : LinterReturns(i, Report(messages))
    \/ \E i \in 1..Len(validations), error \in ErrorsAll : LinterThrows(i, error)

SpecFailures == InitOffered /\ [][NextFailures]_vars

(* ---------------------------------------------- reports of any shape *)
\* The open document is edited and saved with auto-fix on or off, and the linter
\* returns a value of any shape.
ParsingSettings ==
    {x \in SettingsChoices : x.validate}
    \cup {[validate |-> TRUE, run |-> "onType", autoFix |-> FALSE, autoFixOnSave |-> FALSE,
           workingDirectory |-> NoDir, changeProcessCWD |-> FALSE,
           workspaceFolder |-> "ws", library |-> NoLibrary]}
\* messages: with a fix and a rule, with a fix and no rule, with a rule and no fix
Fixable == StylintProblem(1, 1, FALSE, 0, FALSE, 0, "Warning", "R", TRUE, <<0, 2>>)
FixNoRule == StylintProblem(1, 2, FALSE, 0, FALSE, 0, "Warning", NoRule, TRUE, <<1, 3>>)
RuleNoFix == StylintProblem(2, 1, FALSE, 0, FALSE, 0, "Error", "S", FALSE, <<0, 0>>)
ReportShapes ==
    {NoReport,
     [isArray |-> TRUE, docReports |-> <<>>],
     [isArray |-> TRUE, docReports |-> <<DocReport(FALSE, <<>>)>>],
     [isArray |-> TRUE,
      docReports |-> <<DocReport(TRUE, <<Fixable>>), DocReport(TRUE, <<RuleNoFix>>)>>]}
    \cup {Report(messages) :
             messages \in {<<>>, <<Fixable>>, <<NullProblem, Fixable>>,
                           <<Fixable, FixNoRule, RuleNoFix>>}}

InitParsing == \E c \in ParsingSettings : Offered(c)

NextParsing ==
    \/ \E u \in URIs : DidChange(u)
    \/ \E u \in URIs : DidSave(u)
    \/ \E u \in URIs : WillSave(u)
    \/ TimerFires
    \/ \E i \in 1..Len(validations), report \in ReportShapes : LinterReturns(i, report)
    \/ \E i \in 1..Len(validations), error \in Errors : LinterThrows(i, error)

SpecParsing == InitParsing /\ [][NextParsing]_vars

(* ------------------------------------------------------- edits alone *)
\* Documents are opened and edited, and nothing else is sent to the server: no
\* save, no close, no request, no environment change.
NextEdits ==
    \/ \E u \in URIs, v \in 1..MaxVersion : DidOpen(u, v)
    \/ \E u \in URIs : DidChange(u)
    \/ TimerFires
    \/ \E i \in 1..Len(pendingSettings), r \in Resolutions :
          SettingsArrive(i, r.configuration, r.found, TRUE)
    \/ \E i \in 1..Len(validations), messages \in Messages : LinterReturns(i, Report(messages))
    \/ \E i \in 1..Len(validations), error \in Errors : LinterThrows(i, error)

SpecEdits == Init /\ [][NextEdits]_vars

(* ------------------------------------------------ the library of a path *)
\* Documents are opened, closed and validated and the configuration changes,
\* the exec path of the library Files.resolve finds existing or not.
NextLibrary ==
    \/ \E u \in URIs, v \in 1..MaxVersion : DidOpen(u, v)
    \/ \E u \in URIs : DidClose(u)
    \/ registerNotification(ConfigMethod)
    \/ TimerFires
    \/ \E i \in 1..Len(pendingSettings), r \in Resolutions, exists \in BOOLEAN :
          SettingsArrive(i, r.configuration, r.found, exists)
    \/ \E i \in 1..Len(validations), messages \in Messages : LinterReturns(i, Report(messages))

SpecLibrary == Init /\ [][NextLibrary]_vars

(* ------------------------------------------------ the Fixes class alone *)
\* The fix entries of one document, built by recordCodeAction from problems of the
\* linter, and the code-action handler and the Fixes methods applied to them.
FixRanges == {<<0, 0>>, <<0, 1>>, <<0, 2>>, <<1, 3>>}
\* problems of line 1: with a rule and a fix, with a fix and no rule, with no fix
FixProblems ==
    {StylintProblem(1, column, FALSE, 0, FALSE, 0, "Warning", rule, TRUE, range) :
        column \in {1, 2}, rule \in {"R", "S"}, range \in FixRanges}
    \cup {StylintProblem(1, 1, FALSE, 0, FALSE, 0, "Warning", NoRule, TRUE, <<0, 1>>),
          StylintProblem(1, 1, FALSE, 0, FALSE, 0, "Warning", "R", FALSE, <<0, 0>>)}
\* the diagnostics a request names: of a problem of rule R, of one of rule S, of one
\* with no rule
RequestDiagnostics ==
    {makeDiagnostic(StylintProblem(1, 1, FALSE, 0, FALSE, 0, "Warning", rule, FALSE, <<0, 0>>)) :
        rule \in {"R", "S", NoRule}}

InitFixes ==
    /\ ServerStart
    /\ fixEdits = <<>>
    /\ sortEngine \in SortEngines
    /\ fixOut = NoOut
    /\ ReportIdle
    /\ ClientIdle

\* recordCodeAction(document, diagnostic, problem) during a validation of the document
RecordCodeAction(problem) ==
    /\ Len(fixEdits) < MaxFixes \/ mapHas(fixEdits, computeKey(makeDiagnostic(problem)))
    /\ fixEdits' = recordCodeAction(fixEdits, 1, makeDiagnostic(problem), problem)
    /\ fixOut' = NoOut
    /\ UNCHANGED <<sortEngine, serverVars, reportVars, clientVars>>

\* codeActions.delete(uri) of the next validation of the document
DeleteCodeActions ==
    /\ fixEdits # <<>>
    /\ fixEdits' = <<>>
    /\ fixOut' = NoOut
    /\ UNCHANGED <<sortEngine, serverVars, reportVars, clientVars>>

\* a code-action request for the open document, and the Fixes methods on its entries
CodeActions(diagnostics) ==
    /\ fixOut = NoOut
    /\ fixOut' = [diagnostics |-> diagnostics,
                  scoped |-> getScoped(fixEdits, diagnostics),
                  sorted |-> getAllSorted(sortEngine, fixEdits),
                  overlapFree |-> getOverlapFree(sortEngine, fixEdits),
                  actions |-> computeCodeActions(sortEngine, "a", fixEdits, diagnostics,
                                                 TRUE)]
    /\ UNCHANGED <<fixEdits, sortEngine, serverVars, reportVars, clientVars>>

NextFixes ==
    \/ \E problem \in FixProblems : RecordCodeAction(problem)
    \/ DeleteCodeActions
    \/ \E n \in 0..MaxDiagnostics : \E diagnostics \in [1..n -> RequestDiagnostics] :
          CodeActions(diagnostics)

SpecFixes == InitFixes /\ [][NextFixes]_vars


(* ------------------------------------- the wrapper and the conversion *)
\* One run of the linter wrapper on a configuration file, and the conversion of
\* one message of a report.
Severities == {"Warning", "Error", "warning", "Info"}
ReportProblems ==
    {StylintProblem(line, column, hasEndLine, endLine, hasEndColumn, endColumn, severity,
                    "R", FALSE, <<0, 0>>) :
        line \in 0..MaxLine, column \in 0..MaxLine,
        hasEndLine \in BOOLEAN, endLine \in {0, MaxLine + 1},
        hasEndColumn \in BOOLEAN, endColumn \in {0, MaxLine + 1},
        severity \in Severities}

InitReport ==
    /\ ServerStart
    /\ FixesIdle
    /\ ClientIdle
    /\ rcFile \in RcStates
    /\ wrapperOut = NoRun
    /\ reportProblem \in ReportProblems
    /\ reportDiagnostic = NoDiagnostic

\* node stylintwrapper.js <stylint> <file> <rcFile> <reporter>
RunWrapper ==
    /\ wrapperOut = NoRun
    /\ wrapperOut' = wrapper(rcFile)
    /\ UNCHANGED <<rcFile, reportProblem, reportDiagnostic, serverVars, fixesVars, clientVars>>

\* makeDiagnostic(problem) of validate()
MakeDiagnostic ==
    /\ reportDiagnostic = NoDiagnostic
    /\ reportDiagnostic' = makeDiagnostic(reportProblem)
    /\ UNCHANGED <<rcFile, wrapperOut, reportProblem, serverVars, fixesVars, clientVars>>

NextReport == RunWrapper \/ MakeDiagnostic

SpecReport == InitReport /\ [][NextReport]_vars

(* --------------------------------- the workingDirectories setting alone *)
\* The middleware answers one configuration request for a document, with any
\* setting of up to MaxEntries entries.
Entries ==
    {StringEntry(FolderW), StringEntry(RelativeA), StringEntry(NoFsPath),
     DirectoryItem(FolderW, TRUE), DirectoryItem(FolderWA, TRUE),
     DirectoryItem(FolderWA, FALSE), DirectoryItem(FolderX, TRUE), OtherEntry}

InitClient ==
    /\ ServerStart
    /\ FixesIdle
    /\ ReportIdle
    /\ \E n \in 0..MaxEntries : workingDirectories \in [1..n -> Entries]
    /\ workspaceFolderPath \in {NoFsPath, FolderW}
    /\ filePath \in {NoFsPath, DocumentPath}
    /\ configured = FALSE
    /\ workingDirectory = NoWorkingDirectory

\* middleware.workspace.configuration for the document
Configuration ==
    /\ ~configured
    /\ configured' = TRUE
    /\ workingDirectory' =
          selectWorkingDirectory(workingDirectories, workspaceFolderPath, filePath,
                                 NoWorkingDirectory, 1)
    /\ UNCHANGED <<workingDirectories, workspaceFolderPath, filePath, serverVars,
                   fixesVars, reportVars>>

NextClient == Configuration

SpecClient == InitClient /\ [][NextClient]_vars

(* ---------------------------------------------------------------- claims *)
IsPrefix(p, q) == Len(p) <= Len(q) /\ \A i \in 1..Len(p) : p[i] = q[i]
OpenUris == {u \in URIs : InSeq(documents, u)}
\* the last step was the drain step, and it ended this way
Drained(outcomes) == lastAct.op = "processQueue" /\ lastAct.outcome \in outcomes

\* C1: a message with a recorded version has its handler invoked only if the
\* version provider returns the recorded version at dequeue; a stale request is
\* rejected as cancelled without its handler running; and no linter run was started
\* by a validate notification dequeued after its URI had reached a higher version
\* than the recorded one.
C1_VersionGate ==
    /\ (/\ Drained({"handled", "deferred", "threw"})
        /\ HasVersionProvider(lastAct.msg)
        /\ lastAct.msg.documentVersion # Undefined)
       => versionProvider(St, lastAct.msg) = lastAct.msg.documentVersion
    /\ (Drained({"stale"}) /\ lastAct.msg.kind = "request")
       => requests[lastAct.msg.id] = "cancelled" /\ invoked[lastAct.msg.id] = 0
    /\ \A i \in 1..Len(validations) : ~validations[i].stale

\* C2: after any drain step, with the message handled, dropped as stale or
\* rejected as cancelled, the drain timer is armed if the queue is not empty.
C2_DrainRearmed ==
    (Drained({"handled", "deferred", "stale", "cancelled"}) /\ Len(queue) > 0) => timer

\* C3: at most one linter invocation is in flight at any time.
C3_NoConcurrentLinting == Len(validations) <= 1

\* C4: the diagnostics last published for a document by a validation come from a
\* linter run started on the version the document has at publication time.
C4_NoStalePublish ==
    \A u \in URIs : published[u].kind = "report" => published[u].from = published[u].live

\* C5: a validation attempt that completes leaves the working directory as it
\* found it, and with no validation in flight the working directory is the
\* server's original one.
C5_CwdRestored ==
    [][/\ Len(validations') < Len(validations)
          => \E i \in 1..Len(validations) :
                validations' = RemoveAt(validations, i) /\ cwd' = validations[i].cwd
       /\ validations' = <<>> => cwd' = OrigCwd]_vars

\* C6: a request that has left the queue and is not waiting for a deferred result
\* of its handler has been settled exactly once; no request is settled twice.
C6_ExactlyOnce ==
    \A r \in RequestIds :
        /\ settled[r] <= 1
        /\ requests[r] \notin {"none", "queued", "invoked"} => settled[r] = 1

\* C7: a step that is not the drain step only appends to the queue; the drain step
\* handles or drops the head of the queue, removes it alone, and what it enqueues
\* goes behind the messages that were waiting.
C7_Fifo ==
    [][IF lastAct'.op = "processQueue"
       THEN /\ queue # <<>>
            /\ lastAct'.msg = Head(queue)
            /\ IsPrefix(Tail(queue), queue')
       ELSE IsPrefix(queue, queue')]_vars

\* a request was handled while a notification enqueued after it waits
C7_Witness ==
    /\ Drained({"handled", "deferred"})
    /\ lastAct.msg.kind = "request"
    /\ Len(queue) > 0
    /\ queue[1].kind = "notification"

\* C8: a request whose token is cancelled when it is dequeued is rejected as
\* cancelled and its handler is not invoked; a request whose handler was invoked
\* is resolved with the handler's result whatever its token says later.
C8_CancelAtDequeue ==
    [][\A r \in RequestIds :
        /\ (/\ lastAct'.op = "processQueue"
            /\ queue # <<>>
            /\ Head(queue).kind = "request"
            /\ Head(queue).id = r
            /\ cancelRequested[r])
           => /\ requests'[r] = "cancelled"
              /\ lastAct'.outcome = "cancelled"
              /\ invoked'[r] = invoked[r]
              /\ settled'[r] = settled[r] + 1
        /\ requests[r] = "invoked" => requests'[r] \in {"invoked", "resolved"}
        /\ requests[r] = "cancelled" => requests'[r] = "cancelled"]_vars

\* a request cancelled while it waited in the queue was rejected at dequeue
C8_Witness ==
    /\ Drained({"cancelled"})
    /\ requests[lastAct.msg.id] = "cancelled"
    /\ invoked[lastAct.msg.id] = 0

\* a request cancelled after its handler was invoked was resolved all the same
C8_WitnessLate ==
    \E r \in RequestIds : requests[r] = "resolved" /\ cancelRequested[r] /\ invoked[r] = 1

\* C9: between two invalidations of a document's cache entry, the settings store
\* is queried at most once for its URI.
C9_AtMostOneQuery == \A u \in URIs : queries[u] <= 1

\* two callbacks wait for the one query of a URI
C9_Witness ==
    \E i \in 1..Len(pendingSettings) :
        /\ Len(pendingSettings[i].conts) >= 3
        /\ queries[pendingSettings[i].uri] = 1
        /\ document2Settings[pendingSettings[i].uri] = PendingSettings

\* C10: handling a configuration-changed or workspace-folder-changed notification
\* empties the settings cache and appends to the queue exactly one validate
\* notification per open document, with the document's version.
C10_EnvironmentChanged ==
    [][(/\ lastAct'.op = "processQueue"
        /\ lastAct'.outcome = "handled"
        /\ lastAct'.msg.method \in {ConfigMethod, FoldersMethod})
       => /\ \A u \in URIs : document2Settings'[u] = NoSettings
          /\ Len(queue') = Len(queue) - 1 + Len(documents)
          /\ \A i \in Len(queue)..Len(queue') : queue'[i].method = ValidateMethod
          /\ \A u \in OpenUris :
               Cardinality({i \in Len(queue)..Len(queue') :
                   /\ queue'[i].doc = documentsGet(St, u)
                   /\ queue'[i].documentVersion = LiveVersion(St, u)}) = 1]_vars

\* the notification was handled with two documents open, whose unresolved
\* settings promises the cache held
C10_Witness ==
    /\ Drained({"handled"})
    /\ lastAct.msg.method \in {ConfigMethod, FoldersMethod}
    /\ Len(documents) = 2
    /\ Len(queue) = 2
    /\ Len(pendingSettings) = 2

\* the cache holds, for the URI, settings whose library resolution failed
LibraryMissing(u) ==
    document2Settings[u].state = "resolved" /\ document2Settings[u].value.library = NoLibrary
\* the step started a linter run for a document of the URI
LinterStarted(u) ==
    \E i \in (Len(validations) + 1)..Len(validations') : validations'[i].doc.uri = u
\* the step was the drain step handling a configuration or workspace-folder change
EnvironmentChangedStep ==
    /\ lastAct'.op = "processQueue"
    /\ lastAct'.outcome = "handled"
    /\ lastAct'.msg.method \in {ConfigMethod, FoldersMethod}
\* when a library resolution fails, a noLibrary request is sent for the URI, and
\* cached settings with no library have validate = false
NoLibraryReported ==
    /\ (lastAct'.op = "settings" /\ lastAct'.outcome = "notFound")
       => ToClient(NoLibraryMethod, lastAct'.doc.uri, "-") \in lastAct'.sent
    /\ \A u \in URIs :
          (/\ document2Settings'[u].state = "resolved"
           /\ document2Settings'[u].value.library = NoLibrary)
          => ~document2Settings'[u].value.validate

\* C11 as stated: once the library resolution of a document has failed, its
\* settings have validate = false, a noLibrary request was sent, and no linter run
\* is started for the document before a step that handles an environment change.
C11_TerminalUntilEnvironmentChanged ==
    [][/\ NoLibraryReported
       /\ \A u \in URIs :
             (libraryFailed[u] /\ ~EnvironmentChangedStep) => ~LinterStarted(u)]_vars

\* C11 amended: when the library resolution of a document fails, the settings it
\* yields have validate = false and a noLibrary request is sent for the URI; while
\* the cache holds these settings for the URI, no editor event and no drain step
\* starts a linter run for the document; and the cache holds them until a step
\* that handles an environment change or runs the close handler of the URI.
C11_TerminalWhileCached ==
    [][/\ NoLibraryReported
       /\ \A u \in URIs :
             LibraryMissing(u)
             => /\ lastAct'.op \in {"event", "processQueue"} => ~LinterStarted(u)
                /\ \/ document2Settings'[u] = document2Settings[u]
                   \/ EnvironmentChangedStep
                   \/ u \in lastAct'.closed]_vars

\* a validate notification was handled for a document whose cached settings have
\* no library
C11_Witness ==
    /\ Drained({"handled"})
    /\ lastAct.msg.method = ValidateMethod
    /\ LibraryMissing(lastAct.msg.uri)
    /\ libraryFailed[lastAct.msg.uri]

\* C12: when a validation of a document completes with a report, the fix entries
\* of the document are exactly those the pass recorded from the report: none when
\* autoFix is off.
C12_FixStoreReplaced ==
    [][(lastAct'.op = "validate" /\ lastAct'.outcome = "returned")
       => \E i \in 1..Len(validations) :
             /\ validations' = RemoveAt(validations, i)
             /\ validations[i].doc = lastAct'.doc
             /\ codeActions'[lastAct'.doc.uri] =
                    IF validations[i].autoFix
                    THEN recordAll(<<>>, docVersion[lastAct'.doc], lastAct'.report)
                    ELSE <<>>]_vars

\* a close handler of the URI waits for the settings
ClosePending(u) ==
    \E i \in 1..Len(pendingSettings) : \E j \in 1..Len(pendingSettings[i].conts) :
        /\ pendingSettings[i].conts[j].k = "close"
        /\ pendingSettings[i].conts[j].doc.uri = u

\* C13: a URI that was closed, whose close handler has run and that was not opened
\* again, has no entry in the fix store.
C13_NoFixesAfterClose ==
    \A u \in URIs :
        (gen[u] > 0 /\ u \notin OpenUris /\ ~ClosePending(u)) => codeActions[u] = <<>>

\* the place of an entry in a list of entries with distinct keys
Pos(seq, x) == CHOOSE i \in 1..Len(seq) : seq[i] = x
\* the first edit ends after the start of the second
EndsAfterStart(a, b) == a.range[2] > b.range[1]
\* the entries of the list accepted before place k of the sorted list
AcceptedBefore(accepted, sorted, k) ==
    {i \in 1..Len(accepted) : Pos(sorted, accepted[i]) < k}

\* C14: getOverlapFree() is a subsequence of getAllSorted(); no edit of it ends
\* after the start of a later one; and every entry it drops starts before the end
\* of the entry accepted last before it.
C14_OverlapFree ==
    LET free == fixOut.overlapFree
        sorted == fixOut.sorted IN
    /\ \A i \in 1..Len(free) : InSeq(sorted, free[i])
    /\ \A i, j \in 1..Len(free) :
          i < j => /\ Pos(sorted, free[i]) < Pos(sorted, free[j])
                   /\ ~EndsAfterStart(free[i], free[j])
    /\ \A k \in 1..Len(sorted) :
          ~InSeq(free, sorted[k])
          => LET before == AcceptedBefore(free, sorted, k) IN
             /\ before # {}
             /\ EndsAfterStart(free[CHOOSE i \in before : \A j \in before : j <= i],
                               sorted[k])

\* of three entries one was dropped, the two others accepted
C14_Witness ==
    /\ Len(fixOut.sorted) = 3
    /\ Len(fixOut.overlapFree) = 2
    /\ fixOut.overlapFree[2] = fixOut.sorted[3]

\* the identity of a diagnostic: its range and its rule id
Identity(diagnostic) ==
    <<diagnostic.start.line, diagnostic.start.character,
      diagnostic.end.line, diagnostic.end.character, diagnostic.code>>
\* the diagnostics of the list whose identity is the key of a stored entry
Matching(edits, diagnostics) ==
    SelectSeq(diagnostics,
              LAMBDA d : \E i \in 1..Len(edits) : edits[i].key = Identity(d))

\* C15: getScoped(diagnostics) is, in the order of the input, the stored entry of
\* each diagnostic whose identity is the key of a stored entry, and nothing else.
C15_Scoped ==
    LET hits == Matching(fixEdits, fixOut.diagnostics) IN
    /\ Len(fixOut.scoped) = Len(hits)
    /\ \A i \in 1..Len(hits) :
          /\ InSeq(fixEdits, fixOut.scoped[i])
          /\ fixOut.scoped[i].key = Identity(hits[i])

\* of two diagnostics the second alone has an entry, and the store holds more
C15_Witness ==
    /\ Len(fixOut.diagnostics) = 2
    /\ Len(fixOut.scoped) = 1
    /\ fixOut.scoped[1].key = Identity(fixOut.diagnostics[2])
    /\ Len(fixEdits) = 3

\* the greedy overlap-free selection of a sorted list
Greedy(sorted) ==
    IF Len(sorted) <= 1 THEN sorted
    ELSE overlapFreeFrom(sorted, 2, <<sorted[1]>>, sorted[1])

\* C16: for a request with a matching fix, the same-rule command is stored iff the
\* greedy overlap-free selection of the sorted entries of the rule of the first
\* scoped fix has more than one entry, and then holds exactly that selection.
C16_SameRule ==
    fixOut.scoped # <<>>
    => LET rule == fixOut.scoped[1].ruleId
           expected == Greedy(SelectSeq(fixOut.sorted, LAMBDA e : e.ruleId = rule))
           same == fixOut.actions.changes[applySameFixes] IN
       /\ (same # NoChange) = (Len(expected) > 1)
       /\ same # NoChange => same.edits = expected
       /\ InSeq(fixOut.actions.result, applySameFixes) = (same # NoChange)

\* C17: for a request with a matching fix, the fix-all command is stored and
\* offered iff getOverlapFree() of the document's entries has more than one entry,
\* and then holds exactly these entries in that order.
C17_FixAll ==
    fixOut.scoped # <<>>
    => LET all == fixOut.actions.changes[applyAllFixes] IN
       /\ (all # NoChange) = (Len(fixOut.overlapFree) > 1)
       /\ all # NoChange => all.edits = fixOut.overlapFree
       /\ InSeq(fixOut.actions.result, applyAllFixes) = (all # NoChange)

\* a fix-all command of two of the three stored entries
C17_Witness ==
    /\ fixOut.scoped # <<>>
    /\ Len(fixEdits) = 3
    /\ Len(fixOut.actions.changes[applyAllFixes].edits) = 2

\* the drain step takes an execute-command request of these commands
DequeuesCommand(commands_) ==
    /\ lastAct'.op = "processQueue"
    /\ queue # <<>>
    /\ Head(queue).method = ExecuteMethod
    /\ Head(queue).command \in commands_

\* C18: an applyAutoFix command whose identifier version is not the live version
\* of the document, or whose document is not open, gives no edit to applyEdit and,
\* unless it was cancelled before, is resolved at once; when the versions match,
\* the edits given to applyEdit are getOverlapFree() of the document's store.
C18_StaleAutoFix ==
    [][DequeuesCommand({applyAutoFix})
       => LET m == Head(queue)
              isStale == m.uri \notin OpenUris \/ m.argVersion # LiveVersion(St, m.uri)
              free == getOverlapFree(sortEngine, codeActions[m.uri]) IN
          /\ isStale => lastAct'.applied = NoChange
          /\ (isStale /\ ~cancelRequested[m.id])
             => lastAct'.outcome = "handled" /\ requests'[m.id] = "resolved"
          /\ (~isStale /\ ~cancelRequested[m.id])
             => IF free = <<>>
                THEN lastAct'.applied = NoChange /\ requests'[m.id] = "resolved"
                ELSE /\ lastAct'.applied = WorkspaceChange(m.uri, m.argVersion, free)
                     /\ requests'[m.id] = "invoked"]_vars

\* an applyAutoFix command of another version than the live one was handled for
\* an open document that has a fix stored
C18_Witness ==
    /\ Drained({"handled"})
    /\ lastAct.msg.command = applyAutoFix
    /\ lastAct.msg.uri \in OpenUris
    /\ lastAct.msg.argVersion # LiveVersion(St, lastAct.msg.uri)
    /\ codeActions[lastAct.msg.uri] # <<>>
    /\ requests[lastAct.msg.id] = "resolved"

\* an applyAutoFix command of the live version had the stored fix applied
C18_WitnessFresh ==
    /\ Drained({"deferred"})
    /\ lastAct.msg.command = applyAutoFix
    /\ lastAct.applied.edits = codeActions[lastAct.msg.uri]
    /\ lastAct.applied.edits # <<>>

\* the stylint/noConfig request for the URI
NoConfigRequest(u) == ToClient(NoConfigMethod, u, "-")

\* C20: a stylint/noConfig request is sent for a URI only if none was sent for it
\* since the dedup records were last cleared, which only the handler of a
\* watched-files notification does; every validation that fails with a
\* no-config-found error emits status warn, and sends the request iff it is the
\* first such failure of its URI since the clearing.
C20_NoConfigOnce ==
    [][/\ \A u \in URIs :
            /\ NoConfigRequest(u) \in lastAct'.sent
               => u \notin noConfigReported /\ u \in noConfigReported'
            /\ (u \in noConfigReported /\ u \notin noConfigReported')
               => /\ lastAct'.op = "processQueue"
                  /\ lastAct'.outcome = "handled"
                  /\ lastAct'.msg.method = WatchedMethod
       /\ (lastAct'.op = "validate" /\ lastAct'.outcome = NoConfigFound)
          => /\ Status("warn") \in lastAct'.sent
             /\ (NoConfigRequest(lastAct'.doc.uri) \in lastAct'.sent)
                = (lastAct'.doc.uri \notin noConfigReported)]_vars

\* a second failure of a document with no configuration: status warn, no request
C20_Witness ==
    /\ lastAct.op = "validate"
    /\ lastAct.outcome = NoConfigFound
    /\ lastAct.sent = {Status("warn")}
    /\ lastAct.doc.uri \in noConfigReported

\* C19: the workspace changes stored for the three fix commands carry the version
\* recorded in their fix entries, and an execute-command request for a stored
\* command that is dequeued when the live version of the document is not that
\* version is stopped before its handler runs: nothing is given to applyEdit.
C19_StaleStoredCommand ==
    [][/\ \A c \in StoredCommandIds :
            \A i \in 1..Len(commands'.changes[c].edits) :
               commands'.changes[c].edits[i].documentVersion = commands'.changes[c].version
       /\ DequeuesCommand(StoredCommandIds)
          => LET m == Head(queue)
                 change == commands.changes[m.command] IN
             (change # NoChange /\ LiveVersion(St, change.uri) # change.version)
             => /\ lastAct'.outcome \in {"stale", "cancelled"}
                /\ lastAct'.applied = NoChange
                /\ invoked'[m.id] = invoked[m.id]]_vars

\* a 1-based number as a 0-based one, never below 0
ZeroBased(n) == IF n >= 1 THEN n - 1 ELSE 0
\* the message of the report has been converted
Converted == reportDiagnostic # NoDiagnostic

\* C23: the diagnostic of a report message starts at (max(0, line-1),
\* max(0, column-1)) and ends at (max(0, endLine-1), max(0, endColumn-1)), an
\* absent end component being the start component; line 1, column 1 gives (0, 0),
\* no end gives a zero-width range; the severity is Warning for the string
\* 'Warning' alone and Error otherwise.
C23_Conversion ==
    Converted
    => LET p == reportProblem
           d == reportDiagnostic IN
       /\ d.start = [line |-> ZeroBased(p.line), character |-> ZeroBased(p.column)]
       /\ d.end.line = IF p.hasEndLine THEN ZeroBased(p.endLine) ELSE d.start.line
       /\ d.end.character = IF p.hasEndColumn THEN ZeroBased(p.endColumn)
                            ELSE d.start.character
       /\ (p.line = 1 /\ p.column = 1) => d.start = [line |-> 0, character |-> 0]
       /\ (~p.hasEndLine /\ ~p.hasEndColumn) => d.end = d.start
       /\ d.severity = IF p.severity = "Warning" THEN SeverityWarning ELSE SeverityError

\* a message at line 1, column 1 with an end column alone and the severity
\* 'warning' was converted
C23_Witness ==
    /\ Converted
    /\ reportProblem.line = 1 /\ reportProblem.column = 1
    /\ ~reportProblem.hasEndLine /\ reportProblem.hasEndColumn
    /\ reportProblem.severity = "warning"
    /\ reportDiagnostic.end.character = MaxLine

C26_AsyncDrain ==
    [][/\ armed' <= 1
       /\ timer' = (armed' = 1)
       /\ lastAct'.op = "processQueue"
          => /\ armed = 1 /\ queue # <<>>
             /\ IsPrefix(Tail(queue), queue')
             /\ lastAct'.msg = Head(queue)
       /\ lastAct'.op # "processQueue"
          => /\ IsPrefix(queue, queue')
             /\ invoked' = invoked
             /\ settled' = settled \/ lastAct'.op = "applyEdit"]_vars

\* a request was enqueued behind a waiting message while the callback was armed
C26_Witness ==
    /\ lastAct.op = "event"
    /\ Len(queue) = 2
    /\ queue[2].kind = "request"
    /\ requests[queue[2].id] = "queued"
    /\ armed = 1

\* C30: a step that handles an environment change empties the map of libraries by
\* resolved path together with the settings cache.
C30_LibrariesInvalidated ==
    [][EnvironmentChangedStep
       => /\ \A u \in URIs : document2Settings'[u] = NoSettings
          /\ path2Library' = NoLibraries]_vars

\* the step is the end of a validation whose linter run failed
ValidationFailed == lastAct'.op = "validate" /\ lastAct'.outcome \in ErrorsAll
\* the status notifications a step sent
StatusesSent(act) == {message \in act.sent : message.method = StatusMethod}

\* C21: a validation whose linter run fails publishes no diagnostics, so what was
\* published last stays published, and it sends status warn or error, never ok.
C21_ErrorPublishesNothing ==
    [][ValidationFailed
       => /\ published' = published
          /\ Status("ok") \notin lastAct'.sent
          /\ Status("warn") \in lastAct'.sent \/ Status("error") \in lastAct'.sent]_vars

\* a validation of a document with a published report has failed
C21_Witness ==
    /\ lastAct.op = "validate"
    /\ lastAct.outcome \in ErrorsAll
    /\ published[lastAct.doc.uri].kind = "report"

\* the classifiers in their fixed order, and the first that matches an error:
\* no-config-found, config parse/reference error, missing plugin, unclassified
ClassifierOrder ==
    <<"tryHandleNoConfig", "tryHandleConfigError", "tryHandleMissingModule",
      "showErrorMessage">>
ClassOf(error) ==
    CASE error \in {NoConfigFound, NoConfigAndConfigError} -> 1
      [] error \in {ConfigError, PluginReferenced} -> 2
      [] error = PluginMissing -> 3
      [] OTHER -> 4

\* C22: a failed validation runs the classifiers in the fixed order up to the
\* first that matches and no further; it sends exactly one status: warn for the
\* first three classes, error for an unclassified error.
C22_Classification ==
    [][ValidationFailed
       => LET class == ClassOf(lastAct'.outcome) IN
          /\ lastAct'.handlers = SubSeq(ClassifierOrder, 1, class)
          /\ StatusesSent(lastAct') = {Status(IF class <= 3 THEN "warn" ELSE "error")}]_vars

\* an error both the config classifier and the plugin classifier match was
\* classified by the former
C22_Witness ==
    /\ lastAct.op = "validate"
    /\ lastAct.outcome = PluginReferenced
    /\ Len(lastAct.handlers) = 2
    /\ RcPath \in configErrorReported
    /\ missingModuleReported = {}

\* nothing is scheduled: no drain callback, no settings promise, no linter run
NothingScheduled == armed = 0 /\ pendingSettings = <<>> /\ validations = <<>>
\* a validate notification for the live version of an open document
ForLiveVersion(m) ==
    /\ m.method = ValidateMethod
    /\ InSeq(documents, m.uri)
    /\ m.doc = documentsGet(St, m.uri)
    /\ m.documentVersion = docVersion[m.doc]

\* C25: the validate notification of the last edit of a burst does not stay in the
\* queue once nothing is scheduled any more: with no further event the linter is
\* still invoked for the final version.
C25_LatestEditLinted ==
    NothingScheduled => \A i \in 1..Len(queue) : ~ForLiveVersion(queue[i])

\* C27: all fix entries stored for one document carry the same documentVersion.
C27_OneVersionPerStore ==
    \A u \in URIs : \A i, j \in 1..Len(codeActions[u]) :
        codeActions[u][i].documentVersion = codeActions[u][j].documentVersion

\* the step handles a watched-files notification
WatchedFilesHandled ==
    /\ lastAct'.op = "processQueue"
    /\ lastAct'.outcome = "handled"
    /\ lastAct'.msg.method = WatchedMethod
\* the files a watched-files notification lists
Listed(m) == {m.changes[i] : i \in 1..Len(m.changes)}

C29_ResolvedBySuccess ==
    [][(lastAct'.op = "validate" /\ lastAct'.outcome = "returned")
       => lastAct'.doc.uri \notin noConfigReported']_vars

\* the insertion orders of the entries of a store
Reorderings(edits) ==
    {[i \in 1..Len(edits) |-> edits[p[i]]] : p \in Permutations(1..Len(edits))}
\* the edit ranges of a list of entries, in order
Ranges(entries) == [i \in 1..Len(entries) |-> entries[i].range]
\* every stored entry once, by start, then end 0 first, then by end
SortedOnce(edits, sorted) ==
    /\ Len(sorted) = Len(edits)
    /\ \A i \in 1..Len(edits) : InSeq(sorted, edits[i])
    /\ \A i, j \in 1..Len(sorted) :
          i < j => /\ sorted[i].range[1] <= sorted[j].range[1]
                   /\ sorted[i].range[1] = sorted[j].range[1]
                      => /\ sorted[j].range[2] = 0 => sorted[i].range[2] = 0
                         /\ sorted[i].range[2] <= sorted[j].range[2]

\* C31: getAllSorted() returns every stored entry exactly once, by start offset,
\* at equal start an end offset 0 first and then by end offset, and returns the
\* same list whatever the insertion order of the entries.
C31_SortedAll ==
    fixOut # NoOut
    => /\ SortedOnce(fixEdits, fixOut.sorted)
       /\ \A edits \in Reorderings(fixEdits) :
             getAllSorted(sortEngine, edits) = fixOut.sorted

\* C31 (amended): getAllSorted() returns every stored entry exactly once, by start
\* offset, at equal start an end offset 0 first and then by end offset; the edit
\* ranges of the result, in order, are the same whatever the insertion order.
C31_SortedAllRanges ==
    fixOut # NoOut
    => /\ SortedOnce(fixEdits, fixOut.sorted)
       /\ \A edits \in Reorderings(fixEdits) :
             /\ SortedOnce(edits, getAllSorted(sortEngine, edits))
             /\ Ranges(getAllSorted(sortEngine, edits)) = Ranges(fixOut.sorted)

\* three entries were sorted into another order than they were inserted in, an
\* entry that ends at 0 in front of one of the same start
C31_Witness ==
    /\ fixOut # NoOut
    /\ Len(fixEdits) = 3
    /\ fixOut.sorted # fixEdits
    /\ fixOut.sorted[1].range = <<0, 0>>
    /\ fixOut.sorted[2].range[1] = 0
    /\ fixOut.sorted[2].range[2] > 0

\* the entries of the setting whose directory is a prefix of the document's path
MatchingEntries ==
    {i \in 1..Len(workingDirectories) :
        LET directory == directoryOf(workingDirectories[i], workspaceFolderPath) IN
        /\ directory # NoFsPath
        /\ filePath # NoFsPath
        /\ IsPrefix(directory, filePath)}
\* the working directory entry i stands for
ChosenFrom(i) ==
    [directory |-> directoryOf(workingDirectories[i], workspaceFolderPath),
     changeProcessCWD |-> /\ workingDirectories[i].type = "DirectoryItem"
                          /\ workingDirectories[i].changeProcessCWD]

\* C34: when several entries of the setting are prefixes of the document's path,
\* the working directory and its changeProcessCWD flag are those of the first
\* matching entry in list order.
C34_FirstMatch ==
    (configured /\ Cardinality(MatchingEntries) >= 2)
    => workingDirectory =
          ChosenFrom(CHOOSE i \in MatchingEntries : \A j \in MatchingEntries : i <= j)

\* C34 (amended): when several entries of the setting are prefixes of the
\* document's path, the working directory and its flag are those of the matching
\* entry with the longest directory, the first in list order among the longest.
C34_LongestMatch ==
    (configured /\ Cardinality(MatchingEntries) >= 2)
    => \E i \in MatchingEntries :
          /\ workingDirectory = ChosenFrom(i)
          /\ \A j \in MatchingEntries :
                /\ Len(ChosenFrom(j).directory) <= Len(ChosenFrom(i).directory)
                /\ Len(ChosenFrom(j).directory) = Len(ChosenFrom(i).directory) => i <= j

\* three entries match; the second was chosen, being longer than the first and as
\* long as the third, whose flag differs
C34_Witness ==
    /\ configured
    /\ MatchingEntries = {1, 2, 3}
    /\ workingDirectory = ChosenFrom(2)
    /\ Len(ChosenFrom(1).directory) < Len(ChosenFrom(2).directory)
    /\ Len(ChosenFrom(3).directory) = Len(ChosenFrom(2).directory)
    /\ ChosenFrom(3) # ChosenFrom(2)

\* the step hands a validate notification to its handler
ValidateHandled ==
    /\ lastAct'.op = "processQueue"
    /\ lastAct'.outcome = "handled"
    /\ lastAct'.msg.method = ValidateMethod
\* the step starts no linter run, leaves the working directory and the published
\* diagnostics alone and sends no status
NoValidationEffect ==
    /\ validations' = validations
    /\ cwd' = cwd
    /\ published' = published
    /\ StatusesSent(lastAct') = {}
\* the settings the cache holds for the URI after the step have validate = false
ValidateOff(u) ==
    /\ document2Settings'[u].state = "resolved"
    /\ ~document2Settings'[u].value.validate

\* C32: a validation requested for a document that is not open when the handler
\* runs returns at once, and one whose resolved settings have validate = false
\* stops there: neither starts the linter, changes the working directory or the
\* fix store, publishes diagnostics or sends a status.
C32_SilentAbort ==
    [][/\ (ValidateHandled /\ ~InSeq(documents, lastAct'.msg.uri))
          => /\ NoValidationEffect
             /\ codeActions' = codeActions
             /\ pendingSettings' = pendingSettings
       /\ (ValidateHandled /\ ValidateOff(lastAct'.msg.uri))
          => NoValidationEffect /\ codeActions' = codeActions
       /\ (/\ lastAct'.op = "settings"
           /\ document2Settings[lastAct'.doc.uri].state = "pending"
           /\ ValidateOff(lastAct'.doc.uri))
          => NoValidationEffect /\ codeActions' = codeActions]_vars

\* the validate notification of a document closed in the meantime was handled
C32_Witness ==
    /\ lastAct.op = "processQueue"
    /\ lastAct.outcome = "handled"
    /\ lastAct.msg.method = ValidateMethod
    /\ ~InSeq(documents, lastAct.msg.uri)
    /\ published[lastAct.msg.uri].kind = "empty"

\* the validate notification of an open document with validate = false was handled
C32_WitnessOff ==
    /\ lastAct.op = "processQueue"
    /\ lastAct.outcome = "handled"
    /\ lastAct.msg.method = ValidateMethod
    /\ InSeq(documents, lastAct.msg.uri)
    /\ document2Settings[lastAct.msg.uri].state = "resolved"
    /\ ~document2Settings[lastAct.msg.uri].value.validate

\* the report is an array of exactly one element whose messages is an array
OneFileReport(report) ==
    /\ report.isArray
    /\ Len(report.docReports) = 1
    /\ report.docReports[1].messagesIsArray
\* the messages of the report that are not null, in order
NonNullMessages(report) ==
    IF OneFileReport(report)
    THEN SelectSeq(report.docReports[1].messages, LAMBDA m : m # NullProblem)
    ELSE <<>>
\* the keys of the entries of a store
Keys(edits) == {edits[i].key : i \in 1..Len(edits)}

C33_WitnessOther ==
    /\ lastAct.op = "validate"
    /\ lastAct.outcome = "returned"
    /\ Len(lastAct.raw.docReports) = 2
    /\ lastAct.sendDiagnostics.sent
    /\ lastAct.sendDiagnostics.diagnostics = <<>>

\* C35: a validation attempt that fails leaves the fix entries of its document as
\* they were when it started.
C35_FailureKeepsFixes ==
    [][ValidationFailed
       => \E i \in 1..Len(validations) :
             /\ validations' = RemoveAt(validations, i)
             /\ validations[i].doc = lastAct'.doc
             /\ codeActions'[lastAct'.doc.uri] = validations[i].store]_vars

\* C36: when the diagnostics of a code-action request match two or more stored
\* fixes, the command of the single-fix action offered for the i-th of them
\* applies exactly the edit recorded for it.
C36_SingleFixIdentity ==
    Len(fixOut.scoped) >= 2
    => \A i \in 1..Len(fixOut.scoped) :
          fixOut.actions.changes[fixOut.actions.result[i]].edits = <<fixOut.scoped[i]>>

\* C37: the edits a will-save request is answered with are never computed
\* while the validation started for that request is still in flight.
C37_WillSaveAfterValidation ==
    [][\A k \in 1..Len(lastAct'.willSave) :
          ~\E i \in (Len(validations) + 1)..Len(validations') :
               /\ validations'[i].doc = lastAct'.willSave[k].doc
               /\ ~validations'[i].publish]_vars

\* C38: every fix a linter run records carries as documentVersion the version
\* the document had when that run was started.
C38_FixVersionStamp ==
    [][(lastAct'.op = "validate" /\ lastAct'.outcome = "returned")
       => \E i \in 1..Len(validations) :
             /\ validations' = RemoveAt(validations, i)
             /\ validations[i].doc = lastAct'.doc
             /\ LET uri == validations[i].doc.uri IN
                \A k \in 1..Len(codeActions'[uri]) :
                    codeActions'[uri][k].documentVersion = validations[i].from]_vars

\* C39: the library of every linter run in flight is set and its exec path was
\* found to exist.
C39_UsableLibrary ==
    \A i \in 1..Len(validations) :
        validations[i].cli # NoLibrary /\ validations[i].cli.exists

\* C40: in the step after the close handler of a validated document has run and
\* published the empty set, no non-empty diagnostic set is published for the
\* URI while the document is not open again.
C40_NoDiagnosticsAfterClose ==
    [][\A u \in URIs :
          (u \in lastAct.closed /\ published[u] = EmptyPub /\ ~InSeq(documents, u))
          => ~(/\ lastAct'.sendDiagnostics.sent
               /\ lastAct'.sendDiagnostics.uri = u
               /\ lastAct'.sendDiagnostics.diagnostics # <<>>)]_vars

====
